---- MODULE Spec2Model ----
(***************************************************************************)
(* A model of the FunnelFlow CRM backend (customerjourney-backend): the    *)
(* lead router (routes/leads.js and the other revisions of it kept in the  *)
(* repository), the auth router (routes/auth.js and its username-based     *)
(* revision) and the tables they read and write.                           *)
(*                                                                         *)
(* Conventions.                                                            *)
(*  - Text (company, contact, email, notes, content, user names) is a      *)
(*    sequence of one-character strings; Null stands for JavaScript's      *)
(*    undefined/null and for SQL NULL.                                     *)
(*  - A stage is a string; NoStage stands for an absent or NULL stage.     *)
(*  - Numbers parsed from the request are integers; NaN is parseInt's      *)
(*    failure value and is unequal to everything, itself included.         *)
(*  - Time is counted in hours.                                            *)
(*  - A store that fails for reasons of its own is outside this model; the *)
(*    INSERT that violates a UNIQUE constraint and the TypeError that      *)
(*    groupLeadsByStage can raise are inside it.                           *)
(*  - routes/leads.js:93 and part_006:67 read "if (isNaN(x) {"; they are   *)
(*    modelled as the test isNaN(x) they were meant to be.                 *)
(***************************************************************************)
EXTENDS Integers, Sequences, FiniteSets, TLC

VARIABLES
  rev,        \* which revision of the lead router is mounted at /api/leads
  now,        \* the clock, in hours
  leads,      \* the rows of leads_clean (table leads in the oldest revisions)
  nextId,     \* the next value of the SERIAL column leads_clean.id
  req,        \* the request the router handled last
  resp,       \* the response it gave: [status, body]
  arg,        \* input of the pure function under test
  ret,        \* its result
  authRev,    \* which revision of the auth router is mounted at /api/auth
  users,      \* the rows of "user" (user_accounts in the username revision)
  nextUserId, \* the next value of the SERIAL column id of that table
  nextToken,  \* the next value crypto.randomBytes has not yet returned
  calls,      \* the requests in flight at the auth router, by slot
  done,       \* the auth request answered last, with its response
  spent       \* history: the reset tokens that have changed a password

vars == <<rev, now, leads, nextId, req, resp, arg, ret,
          authRev, users, nextUserId, nextToken, calls, done, spent>>

leadVars == <<rev, now, leads, nextId, req, resp>>
pureVars == <<arg, ret>>
authVars == <<authRev, users, nextUserId, nextToken, calls, done, spent>>

----------------------------------------------------------------------------
(* Values *)

Null == <<"null">>
NoStage == "<undefined>"
NaN == -1

isNaN(x) == x = NaN

\* JavaScript's ===/!== on numbers: NaN is unequal to everything.
StrictEq(a, b) == ~isNaN(a) /\ ~isNaN(b) /\ a = b

\* JavaScript truthiness of a text value: undefined, null and "" are falsy.
Truthy(t) == t # Null /\ t # <<>>

\* a || b on text values.
OrElse(a, b) == IF Truthy(a) THEN a ELSE b

\* Truthiness of a stage value and a || b on stages.
StageTruthy(s) == s # NoStage /\ s # ""

StageOrElse(a, b) == IF StageTruthy(a) THEN a ELSE b

Ws == " "

RECURSIVE TrimLeft(_)
TrimLeft(s) == IF s # <<>> /\ Head(s) = Ws THEN TrimLeft(Tail(s)) ELSE s

RECURSIVE TrimRight(_)
TrimRight(s) ==
  IF s # <<>> /\ s[Len(s)] = Ws THEN TrimRight(SubSeq(s, 1, Len(s) - 1)) ELSE s

\* String.prototype.trim
Trim(s) == TrimRight(TrimLeft(s))

\* x?.trim() || null, as the PUT handlers write it.
TrimOrNull(t) == IF t = Null THEN Null ELSE OrElse(Trim(t), Null)

\* The index of the first sep in s, 0 when there is none.
IndexOf(s, sep) ==
  IF \E i \in 1..Len(s) : s[i] = sep
  THEN CHOOSE i \in 1..Len(s) : s[i] = sep /\ \A j \in 1..(i - 1) : s[j] # sep
  ELSE 0

\* String.prototype.split(sep) for a one-character separator.
RECURSIVE Split(_, _)
Split(s, sep) ==
  LET i == IndexOf(s, sep)
  IN IF i = 0 THEN <<s>>
     ELSE <<SubSeq(s, 1, i - 1)>> \o Split(SubSeq(s, i + 1, Len(s)), sep)

\* Array.prototype.join(sep)
RECURSIVE Join(_, _)
Join(parts, sep) ==
  IF parts = <<>> THEN <<>>
  ELSE IF Len(parts) = 1 THEN parts[1]
  ELSE parts[1] \o <<sep>> \o Join(Tail(parts), sep)

\* list.map(s => s.trim()).filter(Boolean)
RECURSIVE TrimmedNonEmpty(_)
TrimmedNonEmpty(parts) ==
  IF parts = <<>> THEN <<>>
  ELSE LET t == Trim(Head(parts))
       IN (IF t = <<>> THEN <<>> ELSE <<t>>) \o TrimmedNonEmpty(Tail(parts))

Range(f) == {f[i] : i \in DOMAIN f}

----------------------------------------------------------------------------
(* The stage classifier and the lead presenter *)

validStages == <<"awareness", "interest", "intent", "evaluation", "purchase">>

StageSet == Range(validStages)

\* Names every object inherits from Object.prototype: grouped[name] and
\* stageCounts[name] are defined for them although they are no stage.
InheritedProps == {"constructor", "toString"}

\* classify with 'purchase' missing from the list of valid stages.
classify_short(stage) ==
  IF stage \in StageSet \ {"purchase"} THEN stage ELSE "awareness"

\* validStages.includes(lead.stage) ? lead.stage : 'awareness'
classify(stage) == IF stage \in StageSet THEN stage ELSE "awareness"

UnknownCompany == <<"Unknown Company">>

\* presentLead with the content split at commas and nothing more.
presentLead_split(lead, stage) ==
  [currentStage |-> stage,
   company |-> OrElse(lead.company, UnknownCompany),
   contact |-> OrElse(lead.contact, <<>>),
   email |-> OrElse(lead.email, <<>>),
   notes |-> OrElse(lead.notes, <<>>),
   content |-> OrElse(lead.content, <<>>),
   contentStrategies |-> Split(OrElse(lead.content, <<>>), ",")] @@ lead

\* The projection groupLeadsByStage pushes for a lead classified as stage:
\* the row's own columns (...lead) with these keys set over them.
presentLead(lead, stage) ==
  [currentStage |-> stage,
   company |-> OrElse(lead.company, UnknownCompany),
   contact |-> OrElse(lead.contact, <<>>),
   email |-> OrElse(lead.email, <<>>),
   notes |-> OrElse(lead.notes, <<>>),
   content |-> OrElse(lead.content, <<>>),
   contentStrategies |->
     TrimmedNonEmpty(Split(OrElse(lead.content, <<>>), ","))] @@ lead

emptyGrouped == [s \in StageSet |-> <<>>]

\* The result of a grouping: the mapping, or the TypeError it threw.
Grouped(g) == [threw |-> FALSE, grouped |-> g]

Threw == [threw |-> TRUE, grouped |-> emptyGrouped]

\* groupLeadsByStage of routes/leads.js: every lead goes to the bucket of
\* its classified stage, in input order.
RECURSIVE groupLeadsByStage(_)
groupLeadsByStage(rows) ==
  IF rows = <<>> THEN Grouped(emptyGrouped)
  ELSE LET rest == groupLeadsByStage(SubSeq(rows, 1, Len(rows) - 1))
           lead == rows[Len(rows)]
           stage == classify(lead.stage)
       IN Grouped([rest.grouped EXCEPT
                     ![stage] = Append(@, presentLead(lead, stage))])

\* The "Complete Updated Version" of the router (part_006).
VALID_STAGES == <<"awareness", "interest", "intent", "evaluation", "purchase">>

DEFAULT_STAGE == "awareness"

classify_p006(stage) ==
  IF stage \in Range(VALID_STAGES) THEN stage ELSE DEFAULT_STAGE

RECURSIVE groupLeadsByStage_p006(_)
groupLeadsByStage_p006(rows) ==
  IF rows = <<>> THEN Grouped([s \in Range(VALID_STAGES) |-> <<>>])
  ELSE LET rest == groupLeadsByStage_p006(SubSeq(rows, 1, Len(rows) - 1))
           lead == rows[Len(rows)]
           stage == classify_p006(lead.stage)
       IN Grouped([rest.grouped EXCEPT
                     ![stage] = Append(@, presentLead(lead, stage))])

\* The "Fixed Backend" revision (part_008): the same classification, a
\* projection without the content keys.
presentLead_p008(lead, stage) ==
  [currentStage |-> stage,
   company |-> OrElse(lead.company, UnknownCompany),
   contact |-> OrElse(lead.contact, <<>>),
   email |-> OrElse(lead.email, <<>>),
   notes |-> OrElse(lead.notes, <<>>)] @@ lead

RECURSIVE groupLeadsByStage_p008(_)
groupLeadsByStage_p008(rows) ==
  IF rows = <<>> THEN Grouped(emptyGrouped)
  ELSE LET rest == groupLeadsByStage_p008(SubSeq(rows, 1, Len(rows) - 1))
           lead == rows[Len(rows)]
           stage == classify(lead.stage)
       IN Grouped([rest.grouped EXCEPT
                     ![stage] = Append(@, presentLead_p008(lead, stage))])

\* The x-user-id revisions (part_002, part_007, part_005) do not classify:
\* they take the first truthy of the row's stage columns and push only when
\* grouped[stage] is truthy. grouped[stage] is an array for the five stages,
\* undefined for an unknown name (the lead is skipped), and an inherited
\* function for a name of Object.prototype, whose .push is not a function:
\* the forEach throws a TypeError.
presentLead_p002(lead, stage) ==
  [currentStage |-> stage,
   contentStrategies |-> OrElse(lead.content_strategies, <<>>)] @@ lead

\* lead.stage || lead.current_stage || 'awareness'
rawStage_p002(lead) ==
  StageOrElse(lead.stage, StageOrElse(lead.current_stage, "awareness"))

\* lead.current_stage || lead.stage || 'awareness'
rawStage_p005(lead) ==
  StageOrElse(lead.current_stage, StageOrElse(lead.stage, "awareness"))

RECURSIVE groupByRawStage(_, _)
groupByRawStage(rows, currentFirst) ==
  IF rows = <<>> THEN Grouped(emptyGrouped)
  ELSE LET rest == groupByRawStage(SubSeq(rows, 1, Len(rows) - 1), currentFirst)
           lead == rows[Len(rows)]
           stage == IF currentFirst THEN rawStage_p005(lead)
                    ELSE rawStage_p002(lead)
       IN IF rest.threw \/ stage \in InheritedProps THEN Threw
          ELSE IF stage \in StageSet
               THEN Grouped([rest.grouped EXCEPT
                      ![stage] = Append(@, presentLead_p002(lead, stage))])
               ELSE rest

groupLeadsByStage_p002(rows) == groupByRawStage(rows, FALSE)

groupLeadsByStage_p007(rows) == groupByRawStage(rows, FALSE)

groupLeadsByStage_p005(rows) == groupByRawStage(rows, TRUE)

\* The grouping helper of the revision named r.
GroupBy(r, rows) ==
  CASE r = "leads" -> groupLeadsByStage(rows)
    [] r = "p006" -> groupLeadsByStage_p006(rows)
    [] r = "p008" -> groupLeadsByStage_p008(rows)
    [] r = "p002" -> groupLeadsByStage_p002(rows)
    [] r = "p007" -> groupLeadsByStage_p007(rows)
    [] r = "p005" -> groupLeadsByStage_p005(rows)

----------------------------------------------------------------------------
(* Requests and responses of the lead router *)

\* Most rows any run inserts into the lead table.
MaxLeads == 2

\* The accounts that hold session tokens.
Users == {1, 2}

Digits == <<"0", "1", "2", "3", "4", "5", "6", "7", "8", "9">>

DigitValue(c) == (CHOOSE i \in DOMAIN Digits : Digits[i] = c) - 1

\* The decimal text of a one-digit number.
ToText(n) == <<Digits[n + 1]>>

\* parseInt on an unsigned text: leading blanks are skipped, the longest
\* prefix of digits is read, and NaN is returned when there is none.
RECURSIVE ReadDigits(_, _)
ReadDigits(s, acc) ==
  IF s # <<>> /\ Head(s) \in Range(Digits)
  THEN ReadDigits(Tail(s), 10 * acc + DigitValue(Head(s)))
  ELSE acc

parseInt(t) ==
  LET s == IF t = Null THEN <<>> ELSE TrimLeft(t)
  IN IF s # <<>> /\ Head(s) \in Range(Digits) THEN ReadDigits(s, 0) ELSE NaN

\* An Authorization header: absent, a token jwt.verify rejects, or a token
\* signed for the account id.
NoToken == [present |-> FALSE, valid |-> FALSE, id |-> 0]

BadToken == [present |-> TRUE, valid |-> FALSE, id |-> 0]

TokenOf(u) == [present |-> TRUE, valid |-> TRUE, id |-> u]

Tokens == {NoToken, BadToken} \cup {TokenOf(u) : u \in Users}

\* The content key of a body: absent, a string, or an array of strings.
NoContent == [kind |-> "undefined", text |-> Null, items |-> <<>>]

ContentText(t) == [kind |-> "string", text |-> t, items |-> <<>>]

ContentArray(l) == [kind |-> "array", text |-> Null, items |-> l]

Body(company, contact, email, stage, notes, content) ==
  [company |-> company, contact |-> contact, email |-> email,
   stage |-> stage, notes |-> notes, content |-> content]

NoBody == Body(Null, Null, Null, NoStage, Null, NoContent)

Request(op, tok, path, body) ==
  [op |-> op, tok |-> tok, path |-> path, body |-> body]

NoRequest == Request("none", NoToken, Null, NoBody)

NoMetrics ==
  [totalLeads |-> -1, awarenessToInterest |-> -1,
   interestToConsideration |-> -1, conversionRate |-> -1,
   avgTimeInFunnel |-> -1, stageDistribution |-> [s \in StageSet |-> -1],
   leadsAddedThisWeek |-> -1, inferredHotLeads |-> -1,
   engagementRate |-> -1, staleLeads |-> -1]

\* res.status(status).json({error: msg})
ErrorResp(status, msg) ==
  [status |-> status, kind |-> "error", error |-> msg,
   grouped |-> emptyGrouped, metrics |-> NoMetrics, lead |-> <<>>]

\* res.status(status).json(grouped)
GroupedResp(status, g) ==
  [status |-> status, kind |-> "grouped", error |-> "",
   grouped |-> g, metrics |-> NoMetrics, lead |-> <<>>]

\* res.json(metrics)
MetricsResp(m) ==
  [status |-> 200, kind |-> "metrics", error |-> "",
   grouped |-> emptyGrouped, metrics |-> m, lead |-> <<>>]

\* res.json(lead): the body is one presented lead.
LeadResp(l) ==
  [status |-> 200, kind |-> "lead", error |-> "",
   grouped |-> emptyGrouped, metrics |-> NoMetrics, lead |-> <<l>>]

NoResponse == ErrorResp(0, "")

\* What a handler leaves behind: its response and the table after it.
Outcome(r, store, next) == [resp |-> r, leads |-> store, nextId |-> next]

\* A row of the lead table.
Row(id, user, company, contact, email, stage, notes, content, at) ==
  [id |-> id, user_id |-> user, company |-> company, contact |-> contact,
   email |-> email, stage |-> stage, current_stage |-> NoStage,
   notes |-> notes, content |-> content, content_strategies |-> Null,
   created_at |-> at]

\* The orders in which a SELECT without ORDER BY may return the rows S.
AnyOrder(S) ==
  {f \in [1..Cardinality(S) -> S] : \A i, j \in DOMAIN f : i # j => f[i] # f[j]}

\* ... ORDER BY created_at DESC: rows of equal created_at come in any order.
NewestFirst(S) ==
  {f \in AnyOrder(S) :
     \A i, j \in DOMAIN f : i < j => f[i].created_at >= f[j].created_at}

\* SELECT * FROM leads_clean WHERE user_id = $1
OwnedBy(store, user) == {l \in store : l.user_id = user}

\* The middleware without its jwt.verify error branch.
authenticateToken_lenient(tok) ==
  IF ~tok.present
  THEN [ok |-> FALSE, id |-> NaN,
        resp |-> ErrorResp(401, "Unauthorized - No token provided")]
  ELSE [ok |-> TRUE, id |-> tok.id, resp |-> NoResponse]

\* The JWT middleware every lead route of routes/leads.js runs first.
authenticateToken(tok) ==
  IF ~tok.present
  THEN [ok |-> FALSE, id |-> NaN,
        resp |-> ErrorResp(401, "Unauthorized - No token provided")]
  ELSE IF ~tok.valid
  THEN [ok |-> FALSE, id |-> NaN,
        resp |-> ErrorResp(403, "Forbidden - Invalid token")]
  ELSE [ok |-> TRUE, id |-> tok.id, resp |-> NoResponse]

\* /^[^\s@]+@[^\s@]+\.[^\s@]+$/.test(email)
EmailRegex(e) ==
  \E i \in 2..Len(e) :
    /\ e[i] = "@"
    /\ \A k \in (1..Len(e)) \ {i} : e[k] # "@" /\ e[k] # Ws
    /\ \E j \in (i + 2)..(Len(e) - 1) : e[j] = "."

\* validateLeadData measuring the company as it came, untrimmed.
validateLeadData_untrimmed(company, email) ==
  \/ ~Truthy(company)
  \/ Len(company) < 2
  \/ Truthy(email) /\ ~EmailRegex(email)

\* validateLeadData: TRUE when it returns errors.
validateLeadData(company, email) ==
  \/ ~Truthy(company)
  \/ Len(Trim(company)) < 2
  \/ Truthy(email) /\ ~EmailRegex(email)

----------------------------------------------------------------------------
(* The funnel metrics of routes/leads.js *)

HoursPerDay == 24

RecentDays == 7

StaleDays == 14

\* JSON null where a number is expected.
NullNum == -2

\* Math.round((a / b) * 100) for counts a >= 0 and b > 0.
RoundPct(a, b) == (200 * a + b) \div (2 * b)

\* stageCounts[lead.stage] !== undefined ? lead.stage : 'awareness': a name
\* inherited from Object.prototype is defined on stageCounts, so it is kept.
metricsStage(stage) ==
  IF stage \in StageSet \cup InheritedProps THEN stage ELSE "awareness"

\* The age of a row in hours; daysAgo(date) is this over HoursPerDay.
AgeHours(lead, t) == t - lead.created_at

\* computeMetrics with the guards against an empty list left out of the
\* average and the engagement rate, which then come out NaN.
computeMetrics_unguarded(rows, t) ==
  [totalLeads |-> Len(rows), awarenessToInterest |-> 0,
   interestToConsideration |-> 0, conversionRate |-> 0,
   avgTimeInFunnel |-> NaN, stageDistribution |-> [s \in StageSet |-> 0],
   leadsAddedThisWeek |-> 0, inferredHotLeads |-> 0,
   engagementRate |-> NaN, staleLeads |-> 0]

\* The report GET /metrics/:userId computes from the rows it selected, at
\* time t. avgTimeInFunnel is in tenths of a day (one decimal).
computeMetrics(rows, t) ==
  LET idx == DOMAIN rows
      stageOf(i) == metricsStage(rows[i].stage)
      age(i) == AgeHours(rows[i], t)
      stageCounts == [s \in StageSet |->
                        Cardinality({i \in idx : stageOf(i) = s})]
      strays == {stageOf(i) : i \in idx} \ StageSet
      SumAges[n \in 0..Len(rows)] == IF n = 0 THEN 0 ELSE SumAges[n - 1] + age(n)
      totalHoursInFunnel == SumAges[Len(rows)]
      recentLeads == Cardinality({i \in idx : age(i) <= RecentDays * HoursPerDay})
      hotLeads == Cardinality({i \in idx :
                    /\ stageOf(i) \in {"intent", "evaluation", "purchase"}
                    /\ age(i) <= RecentDays * HoursPerDay})
      staleLeads == Cardinality({i \in idx :
                    /\ age(i) > StaleDays * HoursPerDay
                    /\ stageOf(i) \in {"awareness", "interest"}})
      totalLeads == Len(rows)
      considerationCount == stageCounts["intent"] + stageCounts["evaluation"]
  IN [totalLeads |-> totalLeads,
      awarenessToInterest |->
        IF stageCounts["awareness"] > 0
        THEN RoundPct(stageCounts["interest"], stageCounts["awareness"]) ELSE 0,
      interestToConsideration |->
        IF stageCounts["interest"] > 0
        THEN RoundPct(considerationCount, stageCounts["interest"]) ELSE 0,
      conversionRate |->
        IF stageCounts["awareness"] > 0
        THEN RoundPct(stageCounts["purchase"], stageCounts["awareness"]) ELSE 0,
      avgTimeInFunnel |->
        IF totalLeads > 0
        THEN (20 * totalHoursInFunnel + HoursPerDay * totalLeads)
               \div (2 * HoursPerDay * totalLeads)
        ELSE NullNum,
      stageDistribution |->
        [s \in StageSet \cup strays |->
           IF s \in strays THEN NaN
           ELSE IF totalLeads > 0 THEN RoundPct(stageCounts[s], totalLeads)
           ELSE 0],
      leadsAddedThisWeek |-> recentLeads,
      inferredHotLeads |-> hotLeads,
      engagementRate |->
        IF totalLeads > 0 THEN RoundPct(recentLeads, totalLeads) ELSE 0,
      staleLeads |-> staleLeads]

----------------------------------------------------------------------------
(* The handlers of routes/leads.js, each as the set of outcomes it can     *)
(* have on the table store with the SERIAL counter at next, at time t.     *)

\* getLeads without the comparison of the path's user with the token's.
getLeads_anyUser(store, next, tok, path) ==
  LET auth == authenticateToken(tok)
      requestedUserId == parseInt(path)
  IN IF ~auth.ok THEN {Outcome(auth.resp, store, next)}
     ELSE IF isNaN(requestedUserId)
     THEN {Outcome(ErrorResp(400, "Invalid user ID"), store, next)}
     ELSE {Outcome(GroupedResp(200, groupLeadsByStage(rows).grouped),
                   store, next) :
             rows \in NewestFirst(OwnedBy(store, requestedUserId))}

\* GET /api/leads/:userId
getLeads(store, next, tok, path) ==
  LET auth == authenticateToken(tok)
      requestedUserId == parseInt(path)
  IN IF ~auth.ok THEN {Outcome(auth.resp, store, next)}
     ELSE IF isNaN(requestedUserId)
     THEN {Outcome(ErrorResp(400, "Invalid user ID"), store, next)}
     ELSE IF ~StrictEq(requestedUserId, auth.id)
     THEN {Outcome(ErrorResp(403,
             "Unauthorized - You can only access your own leads"), store, next)}
     ELSE {Outcome(IF rows = <<>> THEN GroupedResp(200, emptyGrouped)
                   ELSE GroupedResp(200, groupLeadsByStage(rows).grouped),
                   store, next) :
             rows \in NewestFirst(OwnedBy(store, requestedUserId))}

\* Array.isArray(content) ? content.map(c => c.trim()).filter(Boolean)
\*   .join(',') : typeof content === 'string' ? content.trim() : ''
normalizedContent(content) ==
  CASE content.kind = "array" -> Join(TrimmedNonEmpty(content.items), ",")
    [] content.kind = "string" -> Trim(content.text)
    [] OTHER -> <<>>

\* POST /api/leads
postLead(store, next, t, tok, body) ==
  LET auth == authenticateToken(tok)
      notes == IF body.notes = Null THEN <<>> ELSE body.notes
      stage == IF body.stage = NoStage THEN "awareness" ELSE body.stage
      leadStage == classify(stage)
      row == Row(next, auth.id, Trim(body.company), Trim(body.contact),
                 Trim(body.email), leadStage, Trim(notes),
                 normalizedContent(body.content), t)
      after == store \cup {row}
  IN IF ~auth.ok THEN {Outcome(auth.resp, store, next)}
     ELSE IF ~Truthy(body.company) \/ ~Truthy(body.contact) \/ ~Truthy(body.email)
     THEN {Outcome(ErrorResp(400, "Missing required fields"), store, next)}
     ELSE IF validateLeadData(body.company, body.email)
     THEN {Outcome(ErrorResp(400, "Validation failed"), store, next)}
     ELSE {Outcome(GroupedResp(201, groupLeadsByStage(rows).grouped),
                   after, next + 1) :
             rows \in NewestFirst(OwnedBy(after, auth.id))}

\* getMetrics with DELETE ... RETURNING in the place of its SELECT.
getMetrics_deleting(store, next, t, tok, path) ==
  LET auth == authenticateToken(tok)
      requestedUserId == parseInt(path)
  IN IF ~auth.ok THEN {Outcome(auth.resp, store, next)}
     ELSE IF isNaN(requestedUserId) \/ ~StrictEq(requestedUserId, auth.id)
     THEN {Outcome(ErrorResp(403, "Unauthorized access"), store, next)}
     ELSE {Outcome(MetricsResp(computeMetrics(rows, t)),
                   store \ OwnedBy(store, requestedUserId), next) :
             rows \in AnyOrder(OwnedBy(store, requestedUserId))}

\* GET /api/leads/metrics/:userId
getMetrics(store, next, t, tok, path) ==
  LET auth == authenticateToken(tok)
      requestedUserId == parseInt(path)
  IN IF ~auth.ok THEN {Outcome(auth.resp, store, next)}
     ELSE IF isNaN(requestedUserId) \/ ~StrictEq(requestedUserId, auth.id)
     THEN {Outcome(ErrorResp(403, "Unauthorized access"), store, next)}
     ELSE {Outcome(MetricsResp(computeMetrics(rows, t)), store, next) :
             rows \in AnyOrder(OwnedBy(store, requestedUserId))}

\* COALESCE($n, column)
Coalesce(value, column) == IF value # Null THEN value ELSE column

CoalesceStage(value, column) == IF value # NoStage THEN value ELSE column

\* Array.isArray(content) ? content.join(',') : content?.trim() || ''
putContent(content) ==
  CASE content.kind = "array" -> Join(content.items, ",")
    [] content.kind = "string" -> Trim(content.text)
    [] OTHER -> <<>>

\* updateRow with an UPDATE that also sets created_at = CURRENT_TIMESTAMP.
updateRow_stamping(l, body) ==
  [l EXCEPT
     !.company = Coalesce(TrimOrNull(body.company), @),
     !.contact = Coalesce(TrimOrNull(body.contact), @),
     !.email = Coalesce(TrimOrNull(body.email), @),
     !.stage = CoalesceStage(
                 IF body.stage \in StageSet THEN body.stage ELSE NoStage, @),
     !.notes = Coalesce(TrimOrNull(body.notes), @),
     !.content = Coalesce(putContent(body.content), @),
     !.created_at = now]

\* The UPDATE of PUT /api/leads/:id applied to one row.
updateRow(l, body) ==
  [l EXCEPT
     !.company = Coalesce(TrimOrNull(body.company), @),
     !.contact = Coalesce(TrimOrNull(body.contact), @),
     !.email = Coalesce(TrimOrNull(body.email), @),
     !.stage = CoalesceStage(
                 IF body.stage \in StageSet THEN body.stage ELSE NoStage, @),
     !.notes = Coalesce(TrimOrNull(body.notes), @),
     !.content = Coalesce(putContent(body.content), @)]

\* PUT /api/leads/:id
putLead(store, next, tok, path, body) ==
  LET auth == authenticateToken(tok)
      leadId == parseInt(path)
      verifyResult == {l \in store : l.id = leadId /\ l.user_id = auth.id}
      after == {IF l \in verifyResult THEN updateRow(l, body) ELSE l : l \in store}
  IN IF ~auth.ok THEN {Outcome(auth.resp, store, next)}
     ELSE IF isNaN(leadId)
     THEN {Outcome(ErrorResp(400, "Invalid lead ID"), store, next)}
     ELSE IF validateLeadData(body.company, body.email)
     THEN {Outcome(ErrorResp(400, "Validation failed"), store, next)}
     ELSE IF verifyResult = {}
     THEN {Outcome(ErrorResp(404, "Lead not found or not owned by user"),
                   store, next)}
     ELSE {Outcome(GroupedResp(200, groupLeadsByStage(rows).grouped),
                   after, next) :
             rows \in NewestFirst(OwnedBy(after, auth.id))}

\* DELETE /api/leads/:id
deleteLead(store, next, tok, path) ==
  LET auth == authenticateToken(tok)
      leadId == parseInt(path)
      verifyResult == {l \in store : l.id = leadId /\ l.user_id = auth.id}
      after == store \ verifyResult
  IN IF ~auth.ok THEN {Outcome(auth.resp, store, next)}
     ELSE IF isNaN(leadId)
     THEN {Outcome(ErrorResp(400, "Invalid lead ID"), store, next)}
     ELSE IF verifyResult = {}
     THEN {Outcome(ErrorResp(404, "Lead not found or not owned by user"),
                   store, next)}
     ELSE {Outcome(GroupedResp(200, groupLeadsByStage(rows).grouped),
                   after, next) :
             rows \in NewestFirst(OwnedBy(after, auth.id))}

----------------------------------------------------------------------------
(* The inputs the requests are drawn from *)

Acme == <<"A", "c">>

Beta == <<" ", "B", "e", " ">>

ShortName == <<" ", "A", " ">>

Ann == <<"a", "n">>

Mail == <<"a", "@", "b", ".", "c">>

BadMail == <<"a", "@", "b">>

\* Stage inputs: the five stages, an absent one, an empty one, one in
\* another case, and a name inherited from Object.prototype.
StageInputs == StageSet \cup {NoStage, "", "Awareness", "constructor"}

UserPaths == {ToText(u) : u \in Users} \cup {<<"x">>}

LeadPaths == {ToText(i) : i \in 1..MaxLeads} \cup {<<"x">>}

PostBodies ==
  {Body(Acme, Ann, Mail, s, Null, NoContent) : s \in StageInputs}
    \cup {Body(Null, Ann, Mail, "interest", Null, NoContent),
          Body(ShortName, Ann, Mail, "interest", Null, NoContent),
          Body(Acme, Ann, BadMail, "interest", Null, NoContent)}

PutBodies ==
  {Body(Beta, Null, Null, s, Null, NoContent) :
     s \in {"interest", "purchase", NoStage, "Awareness"}}
    \cup {Body(Null, Null, Null, "intent", Null, NoContent)}

----------------------------------------------------------------------------
(* The lead router as a state machine *)

IdlePure == arg = <<>> /\ ret = <<>>

IdleAuth ==
  /\ authRev = "none"
  /\ users = {}
  /\ nextUserId = 1
  /\ nextToken = 1
  /\ calls = <<>>
  /\ done = <<>>
  /\ spent = {}

InitLeadsOf(revisions) ==
  /\ rev \in revisions
  /\ now = 0
  /\ leads = {}
  /\ nextId = 1
  /\ req = NoRequest
  /\ resp = NoResponse

\* The router is between requests.
Idle == req = NoRequest

\* The router answers the request q with outcome o.
Answer(q, o) ==
  /\ req' = q
  /\ resp' = o.resp
  /\ leads' = o.leads
  /\ nextId' = o.nextId
  /\ UNCHANGED <<rev, now, pureVars, authVars>>

\* The path and the body a request is drawn with: a request that carries no
\* valid token is answered before either is read, and is drawn with one.
PathsFor(tok, paths) == IF tok.valid THEN paths ELSE {<<"x">>}

BodiesFor(tok, bodies) == IF tok.valid THEN bodies ELSE {NoBody}

GetLeads ==
  /\ Idle
  /\ rev = "leads"
  /\ \E tok \in Tokens :
       \E path \in PathsFor(tok, UserPaths) :
         \E o \in getLeads(leads, nextId, tok, path) :
           Answer(Request("GET /:userId", tok, path, NoBody), o)

PostLead ==
  /\ Idle
  /\ rev = "leads"
  /\ nextId <= MaxLeads
  /\ \E tok \in Tokens :
       \E body \in BodiesFor(tok, PostBodies) :
         \E o \in postLead(leads, nextId, now, tok, body) :
           Answer(Request("POST /", tok, Null, body), o)

GetMetrics ==
  /\ Idle
  /\ rev = "leads"
  /\ \E tok \in Tokens :
       \E path \in PathsFor(tok, UserPaths) :
         \E o \in getMetrics(leads, nextId, now, tok, path) :
           Answer(Request("GET /metrics/:userId", tok, path, NoBody), o)

PutLead ==
  /\ Idle
  /\ rev = "leads"
  /\ \E tok \in Tokens :
       \E path \in PathsFor(tok, LeadPaths), body \in BodiesFor(tok, PutBodies) :
         \E o \in putLead(leads, nextId, tok, path, body) :
           Answer(Request("PUT /:id", tok, path, body), o)

DeleteLead ==
  /\ Idle
  /\ rev = "leads"
  /\ \E tok \in Tokens :
       \E path \in PathsFor(tok, LeadPaths) :
         \E o \in deleteLead(leads, nextId, tok, path) :
           Answer(Request("DELETE /:id", tok, path, NoBody), o)

\* The response has gone out; the router is idle again.
Close ==
  /\ ~Idle
  /\ req' = NoRequest
  /\ resp' = NoResponse
  /\ UNCHANGED <<rev, now, leads, nextId, pureVars, authVars>>

Init == InitLeadsOf({"leads"}) /\ IdlePure /\ IdleAuth

Next == GetLeads \/ PostLead \/ GetMetrics \/ PutLead \/ DeleteLead \/ Close

\* routes/leads.js mounted at /api/leads.
Spec == Init /\ [][Next]_vars

----------------------------------------------------------------------------
(* Properties of routes/leads.js, under Spec *)

\* The presented leads of a grouped body, and their ids.
Shown(g) == UNION {Range(g[s]) : s \in StageSet}

ShownIds(g) == {p.id : p \in Shown(g)}

IdsOf(S) == {l.id : l \in S}

IsRead == req.op \in {"GET /:userId", "GET /metrics/:userId"}

\* A 200 to a read carries the caller's leads, all of them and no others.
OwnLeadsOnly ==
  resp.status = 200 =>
    /\ req.tok.valid
    /\ parseInt(req.path) = req.tok.id
    /\ resp.kind = "grouped" =>
         /\ \A p \in Shown(resp.grouped) : p.user_id = req.tok.id
         /\ ShownIds(resp.grouped) = IdsOf(OwnedBy(leads, req.tok.id))
    /\ resp.kind = "metrics" =>
         resp.metrics.totalLeads = Cardinality(OwnedBy(leads, req.tok.id))

\* C1 as stated: a 200 response to GET /api/leads/:userId or GET
\* /api/leads/metrics/:userId is computed only from the caller's own leads,
\* and whenever the path's userId differs from the caller's identity the
\* request ends with 403 and carries no lead data.
C1_MismatchAlways403 ==
  IsRead =>
    /\ OwnLeadsOnly
    /\ (req.tok.valid /\ parseInt(req.path) # req.tok.id) =>
         resp.status = 403 /\ resp.kind = "error"

\* C1 as amended: a 200 response to either read is computed only from the
\* caller's own leads; a path userId that is a number other than the
\* caller's ends with 403, one that is no number ends with 400 at GET
\* /api/leads/:userId and with 403 at the metrics route, and in both cases
\* the response carries no lead data.
C1_OwnerOnlyReads ==
  IsRead =>
    /\ OwnLeadsOnly
    /\ (req.tok.valid /\ parseInt(req.path) # req.tok.id) =>
         /\ resp.kind = "error"
         /\ resp.status =
              IF isNaN(parseInt(req.path)) /\ req.op = "GET /:userId"
              THEN 400 ELSE 403

\* C1's case: account 1 reads its leads and gets them while another
\* account's lead is in the table.
C1_Witness ==
  /\ req.op = "GET /:userId"
  /\ req.tok = TokenOf(1)
  /\ resp.status = 200
  /\ Shown(resp.grouped) # {}
  /\ OwnedBy(leads, 2) # {}

\* C6: for every canonical stage s, a lead created with stage s by POST
\* /api/leads is placed, by a GET of the owner's leads taken right after,
\* under key s and under no other key.
C6_RoundTrip ==
  (req.op = "POST /" /\ resp.status = 201 /\ req.body.stage \in StageSet) =>
    \A o \in getLeads(leads, nextId, req.tok, ToText(req.tok.id)) :
      /\ o.resp.status = 200
      /\ \A s \in StageSet :
           Cardinality({i \in DOMAIN o.resp.grouped[s] :
                          o.resp.grouped[s][i].id = nextId - 1})
             = IF s = req.body.stage THEN 1 ELSE 0

\* C6's case: a lead was just created with stage purchase.
C6_Witness ==
  /\ req.op = "POST /"
  /\ resp.status = 201
  /\ req.body.stage = "purchase"
  /\ \E l \in leads : l.id = nextId - 1 /\ l.stage = "purchase"

\* The report of an account that has no leads.
ZeroReport ==
  [totalLeads |-> 0, awarenessToInterest |-> 0,
   interestToConsideration |-> 0, conversionRate |-> 0,
   avgTimeInFunnel |-> NullNum, stageDistribution |-> [s \in StageSet |-> 0],
   leadsAddedThisWeek |-> 0, inferredHotLeads |-> 0,
   engagementRate |-> 0, staleLeads |-> 0]

\* C10: the metrics computed over an empty lead list are all-zero counts and
\* ratios, avgTimeInFunnel null, and every stageDistribution entry 0.
C10_EmptyMetrics ==
  (/\ req.op = "GET /metrics/:userId"
   /\ resp.status = 200
   /\ OwnedBy(leads, req.tok.id) = {}) => resp.metrics = ZeroReport

\* C10's case: the metrics of an account without leads were computed while
\* the table holds a lead of another account.
C10_Witness ==
  /\ req.op = "GET /metrics/:userId"
  /\ resp.status = 200
  /\ OwnedBy(leads, req.tok.id) = {}
  /\ leads # {}

----------------------------------------------------------------------------
(* groupLeadsByStage of every revision, applied to small row lists *)

\* Longest row list the grouping is applied to.
MaxRows == 2

GroupRevs == {"leads", "p006", "p008", "p002", "p007", "p005"}

\* The column a revision keeps the stage in: part_005 reads and writes
\* current_stage of table leads, the others stage of leads_clean.
RowFor(r, row) ==
  IF r = "p005"
  THEN [row EXCEPT !.current_stage = row.stage, !.stage = NoStage]
  ELSE row

\* Rows the tables can hold: any stage text (the revisions that store the
\* request's stage unclassified put it there), or no stage.
SampleRows(r, i) ==
  {RowFor(r, Row(i, 1, Acme, Ann, Mail, stage, <<>>, content, 0)) :
     stage \in StageInputs, content \in {<<>>, <<"a", ",", " ", "b">>}}

RowLists(r) ==
  UNION {{f \in [1..n -> UNION {SampleRows(r, i) : i \in 1..n}] :
            \A i \in 1..n : f[i].id = i} : n \in 0..MaxRows}

InitGroup ==
  /\ InitLeadsOf(GroupRevs)
  /\ IdleAuth
  /\ arg \in RowLists(rev)
  /\ ret = <<>>

\* One call groupLeadsByStage(arg).
Group ==
  /\ ret = <<>>
  /\ ret' = <<GroupBy(rev, arg)>>
  /\ UNCHANGED <<leadVars, arg, authVars>>

NextGroup == Group

SpecGroup == InitGroup /\ [][NextGroup]_vars

\* The stage the row list's revision reads a row's stage from.
StoredStage(row) == IF rev = "p005" THEN row.current_stage ELSE row.stage

\* The classification the specification gives: a canonical name is kept,
\* anything else is awareness.
Canonical(stage) == IF stage \in StageSet THEN stage ELSE "awareness"

\* The presented leads of a result, as <<key, position>> pairs.
Places(g) == {<<s, j>> \in StageSet \X (1..MaxRows + 1) : j \in DOMAIN g[s]}

Returned == ret # <<>>

\* C3: in routes/leads.js, part_006 and part_002, the classification used
\* for grouping and presentation gives awareness for every stage that is not
\* one of the five canonical names (missing, empty, different case) and
\* gives a canonical name unchanged: every lead is presented under, and
\* with currentStage equal to, that classification of its stored stage.
C3_ClassifyDefaultsToAwareness ==
  (Returned /\ rev \in {"leads", "p006", "p002"}) =>
    /\ ~ret[1].threw
    /\ \A i \in DOMAIN arg :
         \E pl \in Places(ret[1].grouped) :
           /\ ret[1].grouped[pl[1]][pl[2]].id = arg[i].id
           /\ pl[1] = Canonical(StoredStage(arg[i]))
           /\ ret[1].grouped[pl[1]][pl[2]].currentStage = pl[1]

\* C4: in routes/leads.js, part_005 and part_007, groupLeadsByStage is a
\* lossless partition: every input lead appears in exactly one output list,
\* no lead appears that was not in the input, the list is keyed by the
\* lead's classified stage, and the number of presented leads equals the
\* number of input leads.
C4_LosslessPartition ==
  (Returned /\ rev \in {"leads", "p005", "p007"}) =>
    LET g == ret[1].grouped
    IN /\ ~ret[1].threw
       /\ \A i \in DOMAIN arg :
            Cardinality({pl \in Places(g) : g[pl[1]][pl[2]].id = arg[i].id}) = 1
       /\ \A pl \in Places(g) :
            \E i \in DOMAIN arg :
              /\ g[pl[1]][pl[2]].id = arg[i].id
              /\ pl[1] = Canonical(StoredStage(arg[i]))
       /\ Cardinality(Places(g)) = Len(arg)

----------------------------------------------------------------------------
(* POST and PUT of the other revisions of the lead router *)

\* value?.trim(): undefined stays undefined.
TrimIfPresent(t) == IF t = Null THEN Null ELSE Trim(t)

\* A destructuring default: ({ key = dflt } = req.body)
Default(t, dflt) == IF t = Null THEN dflt ELSE t

\* The cookie middleware part_006 imports from ../middleware/auth and
\* part_009 exports. Every account of Users has its row in user_accounts.
authenticateToken_p009(tok) ==
  IF ~tok.present
  THEN [ok |-> FALSE, id |-> NaN, resp |-> ErrorResp(401, "Not authenticated")]
  ELSE IF ~tok.valid
  THEN [ok |-> FALSE, id |-> NaN, resp |-> ErrorResp(401, "Invalid token")]
  ELSE [ok |-> TRUE, id |-> tok.id, resp |-> NoResponse]

\* POST / of part_006
postLead_p006(store, next, t, tok, body) ==
  LET auth == authenticateToken_p009(tok)
      stage == IF body.stage = NoStage THEN DEFAULT_STAGE ELSE body.stage
      row == Row(next, auth.id, Trim(body.company),
                 Trim(Default(body.contact, <<>>)),
                 Trim(Default(body.email, <<>>)), classify_p006(stage),
                 Trim(Default(body.notes, <<>>)),
                 normalizedContent(body.content), t)
      after == store \cup {row}
  IN IF ~auth.ok THEN {Outcome(auth.resp, store, next)}
     ELSE IF validateLeadData(body.company, body.email)
     THEN {Outcome(ErrorResp(400, "Validation failed"), store, next)}
     ELSE {Outcome(GroupedResp(201, groupLeadsByStage_p006(rows).grouped),
                   after, next + 1) :
             rows \in NewestFirst(OwnedBy(after, auth.id))}

\* The UPDATE of part_006's PUT applied to one row.
updateRow_p006(l, body) ==
  [l EXCEPT
     !.company = Coalesce(TrimIfPresent(body.company), @),
     !.contact = Coalesce(TrimIfPresent(body.contact), @),
     !.email = Coalesce(TrimIfPresent(body.email), @),
     !.stage = CoalesceStage(
                 IF body.stage \in Range(VALID_STAGES) THEN body.stage
                 ELSE NoStage, @),
     !.notes = Coalesce(TrimIfPresent(body.notes), @),
     !.content = Coalesce(normalizedContent(body.content), @)]

\* PUT /:id of part_006: authenticateToken, then verifyLeadOwnership, then
\* the handler.
putLead_p006(store, next, tok, path, body) ==
  LET auth == authenticateToken_p009(tok)
      leadId == parseInt(path)
      found == {l \in store : l.id = leadId}
      after == {IF l \in found THEN updateRow_p006(l, body) ELSE l : l \in store}
  IN IF ~auth.ok THEN {Outcome(auth.resp, store, next)}
     ELSE IF isNaN(leadId)
     THEN {Outcome(ErrorResp(400, "Invalid lead ID"), store, next)}
     ELSE IF found = {}
     THEN {Outcome(ErrorResp(404, "Lead not found"), store, next)}
     ELSE IF \E l \in found : ~StrictEq(l.user_id, auth.id)
     THEN {Outcome(ErrorResp(403, "Unauthorized access"), store, next)}
     ELSE IF validateLeadData(body.company, body.email)
     THEN {Outcome(ErrorResp(400, "Validation failed"), store, next)}
     ELSE {Outcome(GroupedResp(200, groupLeadsByStage_p006(rows).grouped),
                   after, next) :
             rows \in NewestFirst(OwnedBy(after, auth.id))}

\* The x-user-id revisions take the caller's identity from the request
\* itself (a header, or user_id of the body); the token stands for it.
headerUserId(tok) == IF tok.valid THEN tok.id ELSE NaN

\* The text the database driver sends for an array parameter: {"a","b"}
arrayString(items) ==
  <<"{">> \o Join([i \in DOMAIN items |-> <<"\"">> \o items[i] \o <<"\"">>], ",")
    \o <<"}">>

\* POST / of part_008, for a body that carries user_id
\* POST / of part_008 with the user_id key of the body given as user_id.
postLead_p008_body(store, next, t, user_id, body) ==
  LET stage == IF body.stage = NoStage THEN "awareness" ELSE body.stage
      content == IF body.content.kind = "string" THEN body.content.text
                 ELSE IF body.content.kind = "array"
                 THEN arrayString(body.content.items) ELSE <<>>
      row == Row(next, user_id, Trim(body.company),
                 OrElse(TrimIfPresent(body.contact), <<>>),
                 OrElse(TrimIfPresent(body.email), <<>>), classify(stage),
                 OrElse(TrimIfPresent(body.notes), <<>>), content, t)
      after == store \cup {row}
  IN IF validateLeadData(body.company, body.email)
     THEN {Outcome(ErrorResp(400, "Validation failed"), store, next)}
     ELSE {Outcome(GroupedResp(201, groupLeadsByStage_p008(rows).grouped),
                   after, next + 1) :
             rows \in NewestFirst(OwnedBy(after, user_id))}

\* POST / of part_008 from a client that sends its own id as user_id.
postLead_p008(store, next, t, tok, body) ==
  postLead_p008_body(store, next, t, headerUserId(tok), body)

\* The UPDATE of part_008's PUT applied to one row.
updateRow_p008(l, body) ==
  [l EXCEPT
     !.company = Coalesce(TrimOrNull(body.company), @),
     !.contact = Coalesce(TrimOrNull(body.contact), @),
     !.email = Coalesce(TrimOrNull(body.email), @),
     !.stage = CoalesceStage(
                 IF body.stage \in StageSet THEN body.stage ELSE NoStage, @),
     !.notes = Coalesce(TrimOrNull(body.notes), @)]

\* PUT /:id of part_008
putLead_p008(store, next, tok, path, body) ==
  LET leadId == parseInt(path)
      userId == headerUserId(tok)
      matched == {l \in store : l.id = leadId /\ l.user_id = userId}
      after == {IF l \in matched THEN updateRow_p008(l, body) ELSE l : l \in store}
  IN IF isNaN(leadId) \/ isNaN(userId)
     THEN {Outcome(ErrorResp(400, "Invalid ID(s)"), store, next)}
     ELSE IF validateLeadData(body.company, body.email)
     THEN {Outcome(ErrorResp(400, "Validation failed"), store, next)}
     ELSE IF matched = {}
     THEN {Outcome(ErrorResp(404, "Lead not found"), store, next)}
     ELSE {Outcome(GroupedResp(200, groupLeadsByStage_p008(rows).grouped),
                   after, next) :
             rows \in NewestFirst(OwnedBy(after, userId))}

UntitledCompany == <<"U", "n", "t", "i", "t", "l", "e", "d">>

\* POST / of part_007: the stage of the body is stored as it came. The
\* response groups the rows after the INSERT; a TypeError of the grouping
\* is answered 500 with the row already stored.
postLead_p007(store, next, t, tok, body) ==
  LET user_id == headerUserId(tok)
      company == Default(body.company, <<>>)
      cleanCompany == IF Len(Trim(company)) >= 2 THEN Trim(company)
                      ELSE UntitledCompany
      stage == IF body.stage = NoStage THEN "awareness" ELSE body.stage
      row == Row(next, user_id, cleanCompany, Default(body.contact, <<>>),
                 Default(body.email, <<>>), stage,
                 Default(body.notes, <<>>), Null, t)
      after == store \cup {row}
  IN IF isNaN(user_id)
     THEN {Outcome(ErrorResp(400, "user_id is required"), store, next)}
     ELSE IF Trim(company) = <<>>
     THEN {Outcome(ErrorResp(400, "Company name is required"), store, next)}
     ELSE {IF groupLeadsByStage_p007(rows).threw
           THEN Outcome(ErrorResp(500, "Failed to add lead"), after, next + 1)
           ELSE Outcome(GroupedResp(201, groupLeadsByStage_p007(rows).grouped),
                        after, next + 1) :
             rows \in AnyOrder(OwnedBy(after, user_id))}

\* The UPDATE of part_007's PUT applied to one row: every column is set
\* from the body, the stage as it came.
updateRow_p007(l, body) ==
  [l EXCEPT
     !.company = Default(body.company, <<>>),
     !.contact = Default(body.contact, <<>>),
     !.email = Default(body.email, <<>>),
     !.stage = IF body.stage = NoStage THEN "awareness" ELSE body.stage,
     !.notes = Default(body.notes, <<>>),
     !.content_strategies = <<"[", "]">>]

\* PUT /:id of part_007
putLead_p007(store, next, tok, path, body) ==
  LET leadId == parseInt(path)
      providedUserId == headerUserId(tok)
      matched == {l \in store : l.id = leadId /\ l.user_id = providedUserId}
      after == {IF l \in matched THEN updateRow_p007(l, body) ELSE l : l \in store}
  IN IF isNaN(leadId) \/ isNaN(providedUserId)
     THEN {Outcome(ErrorResp(400, "Invalid IDs"), store, next)}
     ELSE IF Trim(Default(body.company, <<>>)) = <<>>
               \/ Trim(Default(body.contact, <<>>)) = <<>>
     THEN {Outcome(ErrorResp(400, "Company and contact are required"),
                   store, next)}
     ELSE IF matched = {}
     THEN {Outcome(ErrorResp(404, "Lead not found or not owned by user"),
                   store, next)}
     ELSE {Outcome(LeadResp(presentLead_p002(updatedLead, updatedLead.stage)),
                   after, next) :
             updatedLead \in {updateRow_p007(l, body) : l \in matched}}

----------------------------------------------------------------------------
(* POST and PUT of four revisions of the router, one revision per run *)

LeadRevs == {"leads", "p006", "p008", "p007"}

\* POST / of revision r
PostOf(r, store, next, t, tok, body) ==
  CASE r = "leads" -> postLead(store, next, t, tok, body)
    [] r = "p006" -> postLead_p006(store, next, t, tok, body)
    [] r = "p008" -> postLead_p008(store, next, t, tok, body)
    [] r = "p007" -> postLead_p007(store, next, t, tok, body)

\* PUT /:id of revision r
PutOf(r, store, next, tok, path, body) ==
  CASE r = "leads" -> putLead(store, next, tok, path, body)
    [] r = "p006" -> putLead_p006(store, next, tok, path, body)
    [] r = "p008" -> putLead_p008(store, next, tok, path, body)
    [] r = "p007" -> putLead_p007(store, next, tok, path, body)

\* Every request carries an account's identity: a token, or the x-user-id
\* header / user_id key the header revisions read.
Identities == {TokenOf(u) : u \in Users}

RevPutBodies ==
  PutBodies \cup {Body(Beta, Ann, Null, "Awareness", Null, NoContent)}

\* POST bodies of the revisions: one more, with notes and content strategies.
RevPostBodies ==
  PostBodies
    \cup {Body(Acme, Ann, Mail, "intent", Ann, ContentText(<<"a", ",", "b">>))}

PostRev ==
  /\ Idle
  /\ nextId <= MaxLeads
  /\ \E tok \in Identities : \E body \in RevPostBodies :
       \E o \in PostOf(rev, leads, nextId, now, tok, body) :
         Answer(Request("POST /", tok, Null, body), o)

PutRev ==
  /\ Idle
  /\ \E tok \in Identities : \E path \in LeadPaths : \E body \in RevPutBodies :
       \E o \in PutOf(rev, leads, nextId, tok, path, body) :
         Answer(Request("PUT /:id", tok, path, body), o)

InitRevs == InitLeadsOf(LeadRevs) /\ IdlePure /\ IdleAuth

NextRevs == PostRev \/ PutRev \/ Close

SpecRevs == InitRevs /\ [][NextRevs]_vars

\* The lead a PUT names, when it belongs to another account than the
\* caller's.
ForeignLead(q, store) ==
  {l \in store : l.id = parseInt(q.path) /\ l.user_id # q.tok.id}

\* C2: in routes/leads.js, part_006 and part_008, a PUT (with a body that
\* passes validation) on a lead the caller does not own is answered 404,
\* with the status and body the same request gets when no lead has that
\* id, and leaves the lead unchanged.
C2_ForeignPutLooksMissing ==
  [][(/\ Idle
      /\ req'.op = "PUT /:id"
      /\ rev \in {"leads", "p006", "p008"}
      /\ ~validateLeadData(req'.body.company, req'.body.email)
      /\ ForeignLead(req', leads) # {})
     => /\ resp'.status = 404
        /\ resp' \in {o.resp : o \in PutOf(rev, leads \ ForeignLead(req', leads),
                                          nextId, req'.tok, req'.path,
                                          req'.body)}
        /\ leads' = leads]_vars

\* C5: in routes/leads.js and part_007, after any POST or PUT the stage
\* stored for every lead is one of the five canonical stages.
C5_StoredStageCanonical ==
  rev \in {"leads", "p007"} => \A l \in leads : l.stage \in StageSet

----------------------------------------------------------------------------
(* The auth router, routes/auth.js. A handler runs from one await of the   *)
(* store to the next in one step; the steps of the requests in flight      *)
(* interleave.                                                             *)

\* Last reading of the clock.
MaxTime == 2

\* Most reset tokens any run generates.
MaxTokens == 2

\* The requests that can be in flight together.
Slots == {1, 2}

\* Lifetime of a reset token in hours: Date.now() + 3600000
ResetTTL == 1

\* SQL NULL / a missing token.
NoResetToken == 0

Mail2 == <<"d", "@", "e", ".", "f">>

Emails == {Mail, Mail2}

Pw1 == <<"A", "a", "1", "!", "a", "a", "a", "a">>

Pw2 == <<"B", "b", "2", "?", "b", "b", "b", "b">>

Passwords == {Pw1, Pw2}

\* bcrypt.hash and bcrypt.compare: the hash is not the password, and it
\* compares equal to the password it was made from and to no other.
bcryptHash(password) == [bcrypt |-> password]

bcryptCompare(password, hash) == hash.bcrypt = password

\* A request in flight: what it was sent with, and where its handler is.
Call(op, pc, email, password, token) ==
  [op |-> op, pc |-> pc, email |-> email, password |-> password,
   token |-> token]

NoCall == Call("none", "none", Null, Null, NoResetToken)

\* An answered request: the call, the status and error of the response,
\* the account the issued JWT names (0 when none is issued) and, for a
\* reset, how many rows its UPDATE changed.
Answered(call, status, error, session, rowCount) ==
  [call |-> call, status |-> status, error |-> error, session |-> session,
   rowCount |-> rowCount]

NoDone == Answered(NoCall, 0, "", 0, 0)

\* A row of "user".
UserRow(id, email, hash) ==
  [id |-> id, email |-> email, password |-> hash,
   reset_token |-> NoResetToken, resetexpires |-> 0]

\* SELECT * FROM "user" WHERE email = $1
ByEmail(email) == {u \in users : u.email = email}

InitAuth ==
  /\ InitLeadsOf({"none"})
  /\ IdlePure
  /\ authRev = "auth"
  /\ users = {}
  /\ nextUserId = 1
  /\ nextToken = 1
  /\ calls = [s \in Slots |-> NoCall]
  /\ done = NoDone
  /\ spent = {}

\* No response is waiting to be read.
Quiet == done = NoDone

quietLeads == <<rev, leads, nextId, req, resp, arg, ret>>

\* The handler of slot s answers and ends.
Finish(s, a) ==
  /\ done' = a
  /\ calls' = [calls EXCEPT ![s] = NoCall]

\* The handler of slot s goes on to its next query.
Proceed(s, call) ==
  /\ calls' = [calls EXCEPT ![s] = call]
  /\ done' = done

\* POST /register up to the INSERT: the SELECT and its test.
Register ==
  /\ Quiet
  /\ \E s \in Slots, email \in Emails, password \in Passwords :
       /\ calls[s] = NoCall
       /\ LET call == Call("register", "insert", email, password, NoResetToken)
          IN IF ByEmail(email) # {}
             THEN Finish(s, Answered(call, 400, "Email is already registered.", 0, 0))
             ELSE Proceed(s, call)
  /\ UNCHANGED <<quietLeads, now, authRev, users, nextUserId, nextToken, spent>>

\* POST /register from the INSERT on. The email column is unique, as the
\* name column of every account table the repository creates: an INSERT
\* of a taken email throws and is answered 500.
RegisterInsert ==
  /\ Quiet
  /\ \E s \in Slots :
       /\ calls[s].op = "register"
       /\ IF ByEmail(calls[s].email) # {}
          THEN /\ Finish(s, Answered(calls[s], 500,
                    "Something went wrong during registration.", 0, 0))
               /\ UNCHANGED <<users, nextUserId>>
          ELSE /\ users' = users \cup
                    {UserRow(nextUserId, calls[s].email,
                             bcryptHash(calls[s].password))}
               /\ nextUserId' = nextUserId + 1
               /\ Finish(s, Answered(calls[s], 200, "", nextUserId, 0))
  /\ UNCHANGED <<quietLeads, now, authRev, nextToken, spent>>

\* POST /login: the SELECT is its only query, so it answers in one step.
\* rows[0] is any of the rows the SELECT returned.
Login ==
  /\ Quiet
  /\ \E email \in Emails, password \in Passwords :
       LET call == Call("login", "none", email, password, NoResetToken)
       IN IF ByEmail(email) = {}
          THEN done' = Answered(call, 404, "User not found", 0, 0)
          ELSE \E user \in ByEmail(email) :
                 IF ~bcryptCompare(password, user.password)
                 THEN done' = Answered(call, 401, "Incorrect password", 0, 0)
                 ELSE done' = Answered(call, 200, "", user.id, 0)
  /\ UNCHANGED <<quietLeads, now, authRev, users, nextUserId, nextToken,
                 calls, spent>>

\* The tokens request-reset calls in flight are still to generate.
TokensAwaited == Cardinality({s \in Slots : calls[s].op = "request-reset"})

\* POST /request-reset up to the UPDATE
RequestReset ==
  /\ Quiet
  /\ nextToken + TokensAwaited <= MaxTokens
  /\ \E s \in Slots, email \in Emails :
       /\ calls[s] = NoCall
       /\ LET call == Call("request-reset", "update", email, Null, NoResetToken)
          IN IF ByEmail(email) = {}
             THEN Finish(s, Answered(call, 404, "User not found", 0, 0))
             ELSE Proceed(s, call)
  /\ UNCHANGED <<quietLeads, now, authRev, users, nextUserId, nextToken, spent>>

\* POST /request-reset from the UPDATE on: a fresh token, its expiry an
\* hour from now, the mail, the answer.
RequestResetUpdate ==
  /\ Quiet
  /\ \E s \in Slots :
       /\ calls[s].op = "request-reset"
       /\ LET token == nextToken
              expires == now + ResetTTL
          IN /\ users' = {IF u.email = calls[s].email
                          THEN [u EXCEPT !.reset_token = token,
                                         !.resetexpires = expires]
                          ELSE u : u \in users}
             /\ nextToken' = nextToken + 1
             /\ Finish(s, Answered([calls[s] EXCEPT !.token = token], 200,
                                   "", 0, 0))
  /\ UNCHANGED <<quietLeads, now, authRev, nextUserId, spent>>

\* The tokens a client can present: none, or one that was mailed.
ResetTokens == {NoResetToken} \cup (1..(nextToken - 1))

\* SELECT * FROM "user" WHERE reset_token = $1 AND resetexpires > NOW()
ByLiveToken(token) ==
  {u \in users : u.reset_token = token /\ u.resetexpires > now}

\* POST /reset-password up to the UPDATE
ResetPassword ==
  /\ Quiet
  /\ \E s \in Slots, token \in ResetTokens, password \in Passwords :
       /\ calls[s] = NoCall
       /\ LET call == Call("reset-password", "update", Null, password, token)
          IN IF token = NoResetToken
             THEN Finish(s, Answered(call, 400, "Missing token or password", 0, 0))
             ELSE IF ByLiveToken(token) = {}
             THEN Finish(s, Answered(call, 400, "Invalid or expired token", 0, 0))
             ELSE Proceed(s, call)
  /\ UNCHANGED <<quietLeads, now, authRev, users, nextUserId, nextToken, spent>>

\* ResetUpdate with an UPDATE that leaves the resetexpires column alone.
ResetUpdate_keepingExpiry ==
  /\ Quiet
  /\ \E s \in Slots :
       /\ calls[s].op = "reset-password"
       /\ LET matched == {u \in users : u.reset_token = calls[s].token}
          IN /\ users' = {IF u \in matched
                          THEN [u EXCEPT
                                  !.password = bcryptHash(calls[s].password),
                                  !.reset_token = NoResetToken]
                          ELSE u : u \in users}
             /\ spent' = IF matched # {} THEN spent \cup {calls[s].token}
                         ELSE spent
             /\ Finish(s, Answered(calls[s], 200, "", 0, Cardinality(matched)))
  /\ UNCHANGED <<quietLeads, now, authRev, nextUserId, nextToken>>

\* POST /reset-password from the UPDATE on: the rows that hold the token
\* now get the new hash and lose the token; whatever their number, the
\* answer is 200.
ResetUpdate ==
  /\ Quiet
  /\ \E s \in Slots :
       /\ calls[s].op = "reset-password"
       /\ LET matched == {u \in users : u.reset_token = calls[s].token}
          IN /\ users' = {IF u \in matched
                          THEN [u EXCEPT
                                  !.password = bcryptHash(calls[s].password),
                                  !.reset_token = NoResetToken,
                                  !.resetexpires = 0]
                          ELSE u : u \in users}
             /\ spent' = IF matched # {} THEN spent \cup {calls[s].token}
                         ELSE spent
             /\ Finish(s, Answered(calls[s], 200, "", 0, Cardinality(matched)))
  /\ UNCHANGED <<quietLeads, now, authRev, nextUserId, nextToken>>

\* An hour passes.
Tick ==
  /\ Quiet
  /\ now < MaxTime
  /\ now' = now + 1
  /\ UNCHANGED <<quietLeads, authVars>>

\* The client has read the answer.
CloseAuth ==
  /\ ~Quiet
  /\ done' = NoDone
  /\ UNCHANGED <<quietLeads, now, authRev, users, nextUserId, nextToken,
                 calls, spent>>

NextAuth ==
  \/ Register \/ RegisterInsert \/ Login
  \/ RequestReset \/ RequestResetUpdate
  \/ ResetPassword \/ ResetUpdate
  \/ Tick \/ CloseAuth

SpecAuth == InitAuth /\ [][NextAuth]_vars

\* The step answers a POST /reset-password.
ResetAnswered == Quiet /\ done'.call.op = "reset-password"

\* C7: for any interleaving, at most one password change results from an
\* issued reset token: a reset that succeeds clears the token and its
\* expiry, a second reset presenting the same token, concurrent or later,
\* fails with 400, and no password is changed with a token past its expiry.
C7_ResetTokenSingleUse ==
  [][ResetAnswered =>
       LET token == done'.call.token
       IN /\ done'.rowCount > 0 => token \notin spent
          /\ done'.status = 200 =>
               \A u \in users' : u.reset_token # token
          /\ token \in spent => done'.status = 400
          /\ done'.rowCount > 0 =>
               \A u \in users : u.reset_token = token => u.resetexpires > now
     ]_vars

----------------------------------------------------------------------------
(* The username revision of the auth router (part_009), on table           *)
(* user_accounts of initDb.js. Its login rate limiter is left out.         *)

UpperLetters ==
  <<"A", "B", "C", "D", "E", "F", "G", "H", "I", "J", "K", "L", "M",
    "N", "O", "P", "Q", "R", "S", "T", "U", "V", "W", "X", "Y", "Z">>

LowerLetters ==
  <<"a", "b", "c", "d", "e", "f", "g", "h", "i", "j", "k", "l", "m",
    "n", "o", "p", "q", "r", "s", "t", "u", "v", "w", "x", "y", "z">>

DigitChars == {"0", "1", "2", "3", "4", "5", "6", "7", "8", "9"}

\* LOWER(text)
LOWER(t) ==
  [i \in DOMAIN t |->
     IF \E k \in DOMAIN UpperLetters : UpperLetters[k] = t[i]
     THEN LowerLetters[CHOOSE k \in DOMAIN UpperLetters : UpperLetters[k] = t[i]]
     ELSE t[i]]

\* validateUsername: TRUE when it returns an error.
validateUsername(username) ==
  \/ ~Truthy(username)
  \/ Len(username) < 3
  \/ Len(username) > 30
  \/ \E i \in DOMAIN username :
       username[i] \notin
         Range(UpperLetters) \cup Range(LowerLetters) \cup DigitChars \cup {"_"}

\* validatePassword: TRUE when it returns an error.
validatePassword(password) ==
  \/ ~Truthy(password)
  \/ Len(password) < 8
  \/ ~\E i \in DOMAIN password : password[i] \in Range(UpperLetters)
  \/ ~\E i \in DOMAIN password : password[i] \in Range(LowerLetters)
  \/ ~\E i \in DOMAIN password : password[i] \in DigitChars
  \/ ~\E i \in DOMAIN password :
        password[i] \notin
          Range(UpperLetters) \cup Range(LowerLetters) \cup DigitChars

LowerBob == <<"b", "o", "b">>

CapitalBob == <<"B", "o", "b">>

Amy == <<"a", "m", "y">>

Usernames == {LowerBob, CapitalBob, Amy, <<"a", "b">>, <<"a", "-", "b">>, Null}

WeakPassword == <<"A", "a", "1", "a", "a", "a", "a", "a">>

UserPasswords == {Pw1, Pw2, WeakPassword, Null}

\* A request in flight at part_009.
UserCall(op, username, password) ==
  [op |-> op, username |-> username, password |-> password]

NoUserCall == UserCall("none", Null, Null)

\* An answered request: the call, the status, error and field of the
\* response, and the account the jwt cookie names (0 when none is set).
UserAnswered(call, status, error, field, session) ==
  [call |-> call, status |-> status, error |-> error, field |-> field,
   session |-> session]

NoUserDone == UserAnswered(NoUserCall, 0, "", "", 0)

\* A row of user_accounts.
UserAccount(id, username, hash) ==
  [id |-> id, username |-> username, password |-> hash]

\* SELECT * FROM user_accounts WHERE LOWER(username) = LOWER($1)
ByLowerUsername(username) ==
  {u \in users : LOWER(u.username) = LOWER(username)}

InitAccounts ==
  /\ InitLeadsOf({"none"})
  /\ IdlePure
  /\ authRev = "p009"
  /\ users = {}
  /\ nextUserId = 1
  /\ nextToken = 1
  /\ calls = [s \in Slots |-> NoUserCall]
  /\ done = NoUserDone
  /\ spent = {}

QuietAccounts == done = NoUserDone

FinishUser(s, a) ==
  /\ done' = a
  /\ calls' = [calls EXCEPT ![s] = NoUserCall]

quietRest == <<quietLeads, now, authRev, nextToken, spent>>

\* POST /register of part_009 up to the INSERT: the two validations, the
\* case-insensitive SELECT and its test.
RegisterUser ==
  /\ QuietAccounts
  /\ \E s \in Slots, username \in Usernames, password \in UserPasswords :
       /\ calls[s] = NoUserCall
       /\ LET call == UserCall("register", username, password)
          IN IF validateUsername(username)
             THEN FinishUser(s, UserAnswered(call, 400, "usernameError", "username", 0))
             ELSE IF validatePassword(password)
             THEN FinishUser(s, UserAnswered(call, 400, "passwordError", "password", 0))
             ELSE IF ByLowerUsername(username) # {}
             THEN FinishUser(s, UserAnswered(call, 409, "Username already taken",
                                             "username", 0))
             ELSE /\ calls' = [calls EXCEPT ![s] = call]
                  /\ done' = done
  /\ UNCHANGED <<quietRest, users, nextUserId>>

\* POST /register of part_009 from the INSERT on. username is UNIQUE, which
\* compares text exactly: the INSERT of a name already there throws and is
\* answered 500; a name that differs in case is inserted.
RegisterUserInsert ==
  /\ QuietAccounts
  /\ \E s \in Slots :
       /\ calls[s].op = "register"
       /\ IF \E u \in users : u.username = calls[s].username
          THEN /\ FinishUser(s, UserAnswered(calls[s], 500, "Registration failed",
                                             "", 0))
               /\ UNCHANGED <<users, nextUserId>>
          ELSE /\ users' = users \cup
                    {UserAccount(nextUserId, calls[s].username,
                                 bcryptHash(calls[s].password))}
               /\ nextUserId' = nextUserId + 1
               /\ FinishUser(s, UserAnswered(calls[s], 201, "", "", nextUserId))
  /\ UNCHANGED quietRest

\* POST /login of part_009: one query, so one step. rows[0] is any of the
\* rows the SELECT returned, which has no ORDER BY.
LoginUser ==
  /\ QuietAccounts
  /\ \E username \in Usernames, password \in UserPasswords :
       LET call == UserCall("login", username, password)
       IN IF ~Truthy(username) \/ ~Truthy(password)
          THEN done' = UserAnswered(call, 400, "Username and password are required",
                         IF ~Truthy(username) THEN "username" ELSE "password", 0)
          ELSE IF ByLowerUsername(username) = {}
          THEN done' = UserAnswered(call, 401, "Invalid credentials", "username", 0)
          ELSE \E user \in ByLowerUsername(username) :
                 IF ~bcryptCompare(password, user.password)
                 THEN done' = UserAnswered(call, 401, "Invalid credentials",
                                           "password", 0)
                 ELSE done' = UserAnswered(call, 200, "", "", user.id)
  /\ UNCHANGED <<quietRest, users, nextUserId, calls>>

\* The client has read the answer.
CloseAccounts ==
  /\ ~QuietAccounts
  /\ done' = NoUserDone
  /\ UNCHANGED <<quietRest, users, nextUserId, calls>>

NextAccounts == RegisterUser \/ RegisterUserInsert \/ LoginUser \/ CloseAccounts

SpecAccounts == InitAccounts /\ [][NextAccounts]_vars

\* The step answers a request with operation op.
UserStep(op) == QuietAccounts /\ done'.call.op = op

\* C8: at no point do two accounts exist whose usernames are equal ignoring
\* letter case, also when registrations of names that differ only in case
\* run concurrently; a registration whose username matches an existing
\* account's ignoring case is rejected with 409 and creates no account.
C8_NoCaseInsensitiveTwins ==
  /\ [](\A a, b \in users :
          a.id # b.id => LOWER(a.username) # LOWER(b.username))
  /\ [][(UserStep("register") /\ done'.status # 400
           /\ ByLowerUsername(done'.call.username) # {})
        => done'.status = 409 /\ users' = users]_vars

\* C9: a login attempt (username and password given) issues a session token
\* if and only if an account with the given identifier exists and the
\* password matches its stored credential; an unknown identifier is
\* answered as not found (404, or the 401 that names the username field), a
\* wrong password as an invalid credential (401), and a failed login
\* changes no account.
C9_LoginIffCredentialsMatch ==
  [][(UserStep("login") /\ done'.status # 400) =>
       LET c == done'.call
           accounts == ByLowerUsername(c.username)
           matching == {u \in accounts : bcryptCompare(c.password, u.password)}
       IN /\ done'.session # 0 <=> matching # {}
          /\ done'.session # 0 => done'.session \in {u.id : u \in matching}
          /\ accounts = {} =>
               \/ done'.status = 404
               \/ done'.status = 401 /\ done'.field = "username"
          /\ (accounts # {} /\ matching = {}) =>
               done'.status = 401 /\ done'.field # "username"
          /\ users' = users
     ]_vars

----------------------------------------------------------------------------
(* The metrics computation of routes/leads.js and of part_006, applied to  *)
(* small row lists                                                         *)

\* The report of part_006: the stage is classified with includes, and
\* avgTimeInFunnel is rounded to whole days.
computeMetrics_p006(rows, t) ==
  LET idx == DOMAIN rows
      stageOf(i) == classify_p006(rows[i].stage)
      age(i) == AgeHours(rows[i], t)
      stageCounts == [s \in Range(VALID_STAGES) |->
                        Cardinality({i \in idx : stageOf(i) = s})]
      SumAges[n \in 0..Len(rows)] == IF n = 0 THEN 0 ELSE SumAges[n - 1] + age(n)
      recentLeads == Cardinality({i \in idx : age(i) <= RecentDays * HoursPerDay})
      hotLeads == Cardinality({i \in idx :
                    /\ stageOf(i) \in {"intent", "evaluation", "purchase"}
                    /\ age(i) <= RecentDays * HoursPerDay})
      staleLeads == Cardinality({i \in idx :
                    /\ age(i) > StaleDays * HoursPerDay
                    /\ stageOf(i) \in {"awareness", "interest"}})
      totalLeads == Len(rows)
      considerationCount == stageCounts["intent"] + stageCounts["evaluation"]
  IN [totalLeads |-> totalLeads,
      awarenessToInterest |->
        IF stageCounts["awareness"] > 0
        THEN RoundPct(stageCounts["interest"], stageCounts["awareness"]) ELSE 0,
      interestToConsideration |->
        IF stageCounts["interest"] > 0
        THEN RoundPct(considerationCount, stageCounts["interest"]) ELSE 0,
      conversionRate |->
        IF stageCounts["awareness"] > 0
        THEN RoundPct(stageCounts["purchase"], stageCounts["awareness"]) ELSE 0,
      avgTimeInFunnel |->
        IF totalLeads > 0
        THEN (2 * SumAges[Len(rows)] + HoursPerDay * totalLeads)
               \div (2 * HoursPerDay * totalLeads)
        ELSE NullNum,
      stageDistribution |->
        [s \in Range(VALID_STAGES) |->
           IF totalLeads > 0 THEN RoundPct(stageCounts[s], totalLeads) ELSE 0],
      leadsAddedThisWeek |-> recentLeads,
      inferredHotLeads |-> hotLeads,
      engagementRate |->
        IF totalLeads > 0 THEN RoundPct(recentLeads, totalLeads) ELSE 0,
      staleLeads |-> staleLeads]

\* The metrics computation of the revision named r.
MetricsOf(r, rows, t) ==
  CASE r = "leads" -> computeMetrics(rows, t)
    [] r = "p006" -> computeMetrics_p006(rows, t)

\* Longest row list the metrics are computed over.
MaxMetricRows == 3

\* The time of the metrics request, in hours.
MetricsNow == 400

\* Stored stages: the five, one in another case, one inherited name.
MetricStages ==
  <<"awareness", "interest", "intent", "evaluation", "purchase",
    "Awareness", "constructor">>

\* Ages in hours: new, 7 days, 7 days and an hour, 14 days, 14 days and an
\* hour.
MetricAges == <<0, 168, 169, 336, 337>>

\* The kinds of row, numbered: a stage and an age each.
VariantCount == Len(MetricStages) * Len(MetricAges)

MetricRow(i, k) ==
  Row(i, 1, Acme, Ann, Mail, MetricStages[((k - 1) \div Len(MetricAges)) + 1],
      <<>>, <<>>, MetricsNow - MetricAges[((k - 1) % Len(MetricAges)) + 1])

\* The row lists of n rows, one per multiset of row kinds: the kinds come
\* in nondecreasing order. The orders in which a SELECT can return the rows
\* are those of getMetrics.
Nondecreasing(kinds) ==
  \A i \in 1..(Len(kinds) - 1) : kinds[i] <= kinds[i + 1]

InitMetrics ==
  /\ rev \in {"leads", "p006"}
  /\ now = MetricsNow
  /\ leads = {} /\ nextId = 1 /\ req = NoRequest /\ resp = NoResponse
  /\ IdleAuth
  /\ \E n \in 0..MaxMetricRows :
       \E kinds \in [1..n -> 1..VariantCount] :
         /\ Nondecreasing(kinds)
         /\ arg = [i \in 1..n |-> MetricRow(i, kinds[i])]
  /\ ret = <<>>

\* One computation of the report over arg at time now.
Metrics ==
  /\ ret = <<>>
  /\ ret' = <<MetricsOf(rev, arg, now)>>
  /\ UNCHANGED <<leadVars, arg, authVars>>

NextMetrics == Metrics

SpecMetrics == InitMetrics /\ [][NextMetrics]_vars

\* The number of rows of arg whose classified stage is in S.
CountIn(S) ==
  Cardinality({i \in DOMAIN arg : Canonical(arg[i].stage) \in S})

\* round(100 * a / b) for a >= 0 and b > 0: the nearest integer, a half
\* going up.
RoundedPercent(a, b) ==
  CHOOSE n \in 0..(100 * a + 1) :
    2 * b * n <= 200 * a + b /\ 200 * a + b < 2 * b * (n + 1)

\* The rows of arg aged d days or less at time now.
AgedAtMost(d) == {i \in DOMAIN arg : now - arg[i].created_at <= d * 24}

\* The rows of arg whose classified stage is in S.
StagedIn(S) == {i \in DOMAIN arg : Canonical(arg[i].stage) \in S}

\* C11: for every lead list, with the per-stage counts taken after
\* classification, awarenessToInterest = round(100 * interest / awareness),
\* interestToConsideration = round(100 * (intent + evaluation) / interest),
\* conversionRate = round(100 * purchase / awareness), and each ratio is 0
\* whenever its denominator count is 0.
C11_Ratios ==
  (Returned /\ rev = "leads") =>
    LET a == CountIn({"awareness"})
        i == CountIn({"interest"})
        c == CountIn({"intent", "evaluation"})
        p == CountIn({"purchase"})
    IN /\ ret[1].awarenessToInterest =
            IF a = 0 THEN 0 ELSE RoundedPercent(i, a)
       /\ ret[1].interestToConsideration =
            IF i = 0 THEN 0 ELSE RoundedPercent(c, i)
       /\ ret[1].conversionRate =
            IF a = 0 THEN 0 ELSE RoundedPercent(p, a)

\* C12: for every lead list and time now, in routes/leads.js and part_006,
\* leadsAddedThisWeek is the number of leads aged 7 days or less,
\* inferredHotLeads the number of those whose classified stage is intent,
\* evaluation or purchase, and staleLeads the number aged more than 14 days
\* whose classified stage is awareness or interest, an unrecognised stage
\* counting as awareness.
C12_RecentHotStale ==
  Returned =>
    /\ ret[1].leadsAddedThisWeek = Cardinality(AgedAtMost(7))
    /\ ret[1].inferredHotLeads =
         Cardinality(AgedAtMost(7) \cap StagedIn({"intent", "evaluation", "purchase"}))
    /\ ret[1].staleLeads =
         Cardinality(StagedIn({"awareness", "interest"}) \ AgedAtMost(14))

----------------------------------------------------------------------------
(* Further properties of routes/leads.js, under Spec *)

----------------------------------------------------------------------------
(* Further properties of POST and PUT of the revisions, under SpecRevs *)

\* The lead a PUT names, when it belongs to the caller.
OwnLead(q, store) ==
  {l \in store : l.id = parseInt(q.path) /\ l.user_id = q.tok.id}

\* The row of store that has the id of l.
SameId(l, store) == {m \in store : m.id = l.id}

\* C14: in routes/leads.js and part_006, a PUT on an owned lead whose body
\* supplies only some of company, contact, email, stage, notes and content
\* succeeds, and every field the body does not supply keeps its stored
\* value.
C14_PartialUpdateKeepsRest ==
  [][(Idle /\ req'.op = "PUT /:id" /\ rev \in {"leads", "p006"}) =>
       \A l \in OwnLead(req', leads) :
         /\ resp'.status = 200
         /\ \A m \in SameId(l, leads') :
              /\ req'.body.company = Null => m.company = l.company
              /\ req'.body.contact = Null => m.contact = l.contact
              /\ req'.body.email = Null => m.email = l.email
              /\ req'.body.stage = NoStage => m.stage = l.stage
              /\ req'.body.notes = Null => m.notes = l.notes
              /\ req'.body.content = NoContent => m.content = l.content
     ]_vars

----------------------------------------------------------------------------
(* DELETE /:id and GET /:userId of part_006; the specification SpecDelete *)

getLeads_p006(store, next, tok, path) ==
  LET auth == authenticateToken_p009(tok)
      requestedUserId == parseInt(path)
  IN IF ~auth.ok THEN {Outcome(auth.resp, store, next)}
     ELSE IF ~StrictEq(requestedUserId, auth.id)
     THEN {Outcome(ErrorResp(403, "Unauthorized access"), store, next)}
     ELSE {Outcome(GroupedResp(200, groupLeadsByStage_p006(rows).grouped),
                   store, next) :
             rows \in NewestFirst(OwnedBy(store, requestedUserId))}

\* authenticateToken, then verifyLeadOwnership, then the handler.
deleteLead_p006(store, next, tok, path) ==
  LET auth == authenticateToken_p009(tok)
      leadId == parseInt(path)
      found == {l \in store : l.id = leadId}
      after == store \ found
  IN IF ~auth.ok THEN {Outcome(auth.resp, store, next)}
     ELSE IF isNaN(leadId)
     THEN {Outcome(ErrorResp(400, "Invalid lead ID"), store, next)}
     ELSE IF found = {}
     THEN {Outcome(ErrorResp(404, "Lead not found"), store, next)}
     ELSE IF \E l \in found : ~StrictEq(l.user_id, auth.id)
     THEN {Outcome(ErrorResp(403, "Unauthorized access"), store, next)}
     ELSE {Outcome(GroupedResp(200, groupLeadsByStage_p006(rows).grouped),
                   after, next) :
             rows \in NewestFirst(OwnedBy(after, auth.id))}

DeleteRevs == {"leads", "p006"}

\* DELETE /:id of revision r
DeleteOf(r, store, next, tok, path) ==
  CASE r = "leads" -> deleteLead(store, next, tok, path)
    [] r = "p006" -> deleteLead_p006(store, next, tok, path)

\* GET /:userId of revision r
GetOf(r, store, next, tok, path) ==
  CASE r = "leads" -> getLeads(store, next, tok, path)
    [] r = "p006" -> getLeads_p006(store, next, tok, path)

DeleteRev ==
  /\ Idle
  /\ \E tok \in Identities : \E path \in LeadPaths :
       \E o \in DeleteOf(rev, leads, nextId, tok, path) :
         Answer(Request("DELETE /:id", tok, path, NoBody), o)

InitDelete == InitLeadsOf(DeleteRevs) /\ IdlePure /\ IdleAuth

NextDelete == PostRev \/ DeleteRev \/ Close

SpecDelete == InitDelete /\ [][NextDelete]_vars

\* The ids of the leads a later GET /:userId of the caller q.tok may show.
LaterShown(q, store, next) ==
  UNION {ShownIds(o.resp.grouped) :
           o \in GetOf(rev, store, next, q.tok, ToText(q.tok.id))}

\* C15: DELETE /:id by the owner removes that lead and no other, and a later
\* GET of the owner shows it in no bucket; DELETE of a lead that is missing
\* or belongs to another account is answered 404 and changes nothing.
C15_DeleteExactlyThat ==
  [][(Idle /\ req'.op = "DELETE /:id" /\ ~isNaN(parseInt(req'.path))) =>
       IF OwnLead(req', leads) # {}
       THEN /\ resp'.status = 200
            /\ leads' = leads \ OwnLead(req', leads)
            /\ parseInt(req'.path) \notin LaterShown(req', leads', nextId')
       ELSE /\ resp'.status = 404
            /\ leads' = leads
     ]_vars

----------------------------------------------------------------------------
(* Requests that name another account; the specification SpecOwners *)

deleteLead_p008(store, next, tok, path) ==
  LET leadId == parseInt(path)
      userId == headerUserId(tok)
      deleted == {l \in store : l.id = leadId /\ l.user_id = userId}
      after == store \ deleted
  IN IF isNaN(leadId) \/ isNaN(userId)
     THEN {Outcome(ErrorResp(400, "Invalid ID(s)"), store, next)}
     ELSE IF deleted = {}
     THEN {Outcome(ErrorResp(404, "Lead not found"), store, next)}
     ELSE {Outcome(GroupedResp(200, groupLeadsByStage_p008(rows).grouped),
                   after, next) :
             rows \in NewestFirst(OwnedBy(after, userId))}

OwnerRevs == {"leads", "p008"}

\* A request of the account tok that names the account claimed as owner: in
\* the user_id key of the body (POST) or in the x-user-id header (PUT,
\* DELETE).  routes/leads.js reads neither; part_008 reads nothing else.
PostAs ==
  /\ Idle
  /\ nextId <= MaxLeads
  /\ \E tok \in Identities : \E claimed \in Users : \E body \in PostBodies :
       \E o \in IF rev = "leads"
                THEN postLead(leads, nextId, now, tok, body)
                ELSE postLead_p008_body(leads, nextId, now, claimed, body) :
         Answer(Request("POST /", tok, Null, body), o)

PutAs ==
  /\ Idle
  /\ \E tok \in Identities : \E claimed \in Users :
       \E path \in LeadPaths : \E body \in PutBodies :
         \E o \in IF rev = "leads"
                  THEN putLead(leads, nextId, tok, path, body)
                  ELSE putLead_p008(leads, nextId, TokenOf(claimed), path, body) :
           Answer(Request("PUT /:id", tok, path, body), o)

DeleteAs ==
  /\ Idle
  /\ \E tok \in Identities : \E claimed \in Users : \E path \in LeadPaths :
       \E o \in IF rev = "leads"
                THEN deleteLead(leads, nextId, tok, path)
                ELSE deleteLead_p008(leads, nextId, TokenOf(claimed), path) :
         Answer(Request("DELETE /:id", tok, path, NoBody), o)

InitOwners == InitLeadsOf(OwnerRevs) /\ IdlePure /\ IdleAuth

NextOwners == PostAs \/ PutAs \/ DeleteAs \/ Close

SpecOwners == InitOwners /\ [][NextOwners]_vars

\* The leads of store that do not belong to the account of request q.
LeadsOfOthers(q, store) == {l \in store : l.user_id # q.tok.id}

\* C16: a POST, PUT or DELETE of one account changes no lead of another
\* account and creates none, whatever owner id or lead id the request
\* supplies in its body, path or headers.
C16_OwnersNeverInteract ==
  [][(Idle /\ req'.op \in {"POST /", "PUT /:id", "DELETE /:id"}) =>
       LeadsOfOthers(req', leads') = LeadsOfOthers(req', leads)]_vars

----------------------------------------------------------------------------
(* part_005: movement history, and PUT split at its awaits; the
   specification SpecHistory.  A PUT in flight occupies a slot of calls: it
   is begun (for part_005 the SELECT of current_stage has run), then its
   UPDATE runs, after any step of the other slot.  arg holds the store as it
   was when the first of the requests in flight began. *)

NullStage == "null"

Move(from, to, t) == [from |-> from, to |-> to, date |-> t]

NoHistory == [given |-> FALSE, records |-> <<>>]

History(h) == [given |-> TRUE, records |-> h]

\* req.body of part_005
Body_p005(company, contact, email, currentStage, movementHistory) ==
  [company |-> company, contact |-> contact, email |-> email,
   currentStage |-> currentStage, movementHistory |-> movementHistory]

\* POST / of part_005: the store after the INSERT, or the store unchanged
\* when the request is answered 400.
postLead_p005(store, next, t, user_id, body) ==
  LET company == Default(body.company, <<>>)
      contact == Default(body.contact, <<>>)
      email == Default(body.email, <<>>)
      currentStage == IF body.currentStage = NoStage THEN "awareness"
                      ELSE body.currentStage
      row == [movement_history |-> <<Move(NullStage, currentStage, t)>>]
               @@ [Row(next, user_id, Trim(company), Trim(contact),
                       Trim(email), "awareness", <<>>, Null, t)
                     EXCEPT !.current_stage = currentStage,
                            !.content_strategies = <<"[", "]">>]
  IN IF isNaN(user_id) THEN store
     ELSE IF ~Truthy(company) \/ ~Truthy(contact) \/ ~Truthy(email) THEN store
     ELSE store \cup {row}

\* The rows the SELECT of a PUT finds.
currentLead(store, q) ==
  {l \in store : l.id = parseInt(q.path) /\ l.user_id = headerUserId(q.tok)}

\* The UPDATE of part_005's PUT, for a handler that read oldStage.
updateLead_p005(store, q, oldStage, t) ==
  LET newStage == StageOrElse(q.body.currentStage, oldStage)
      given == IF q.body.movementHistory.given
               THEN q.body.movementHistory.records ELSE <<>>
      updatedMovementHistory ==
        IF oldStage # newStage
        THEN Append(given, Move(oldStage, newStage, t)) ELSE given
  IN {IF l \in currentLead(store, q)
      THEN [l EXCEPT !.company = q.body.company,
                     !.contact = q.body.contact,
                     !.email = q.body.email,
                     !.current_stage = newStage,
                     !.notes = Null,
                     !.content_strategies = <<"[", "]">>,
                     !.movement_history = updatedMovementHistory]
      ELSE l : l \in store}

HistoryRevs == {"leads", "p005"}

\* The store after the UPDATE of a PUT of revision r.
UpdateOf(r, store, next, q, oldStage, t) ==
  IF r = "p005" THEN updateLead_p005(store, q, oldStage, t)
  ELSE (CHOOSE o \in putLead(store, next, q.tok, q.path, q.body) : TRUE).leads

\* The store after a whole PUT that no other request interleaves with.
PutAlone(r, store, next, q, t) ==
  IF r = "p005"
  THEN IF isNaN(parseInt(q.path)) \/ currentLead(store, q) = {} THEN store
       ELSE updateLead_p005(store, q,
              (CHOOSE l \in currentLead(store, q) : TRUE).current_stage, t)
  ELSE UpdateOf(r, store, next, q, NoStage, t)

PutCall(pc, tok, path, body, oldStage, status) ==
  [pc |-> pc, tok |-> tok, path |-> path, body |-> body,
   oldStage |-> oldStage, status |-> status]

NoPut == PutCall("idle", NoToken, Null, NoBody, NoStage, 0)

AllIdle == \A s \in Slots : calls[s].pc = "idle"

HistoryStages == {NoStage, "interest", "intent"}

\* No PUT begins once a stored history has MaxMoves records, and the store
\* holds at most MaxHistoryLeads leads.
MaxMoves == 2

MaxHistoryLeads == 1

HistoryPaths == {ToText(i) : i \in 1..MaxHistoryLeads} \cup {<<"x">>}

HistoryBelowBound ==
  rev = "p005" => \A l \in leads : Len(l.movement_history) < MaxMoves

\* The bodies a client sends: with no movementHistory, or with the one of
\* the lead as the client last saw it.
HistoryPutBodies(path) ==
  IF rev = "p005"
  THEN {Body_p005(Acme, Ann, Mail, st, h) :
          st \in HistoryStages,
          h \in {NoHistory}
                  \cup {History(l.movement_history) :
                          l \in {m \in leads : m.id = parseInt(path)}}}
  ELSE {Body(Acme, Null, Null, st, Null, NoContent) : st \in HistoryStages}

InitHistory ==
  /\ InitLeadsOf(HistoryRevs)
  /\ IdlePure
  /\ authRev = "none" /\ users = {} /\ nextUserId = 1 /\ nextToken = 1
  /\ calls = [s \in Slots |-> NoPut]
  /\ done = <<>>
  /\ spent = {}

PostHistory ==
  /\ AllIdle
  /\ nextId <= MaxHistoryLeads
  /\ \E u \in Users : \E st \in {NoStage, "interest"} :
       leads' = IF rev = "p005"
                THEN postLead_p005(leads, nextId, now, u,
                       Body_p005(Acme, Ann, Mail, st, NoHistory))
                ELSE (CHOOSE o \in postLead(leads, nextId, now, TokenOf(u),
                                     Body(Acme, Ann, Mail, st, Null, NoContent)) :
                        TRUE).leads
  /\ nextId' = nextId + 1
  /\ UNCHANGED <<rev, now, req, resp, pureVars, authVars>>

\* The handler up to its first await that writes: request read, and in
\* part_005 the SELECT of current_stage answered.
PutSelect(s) ==
  /\ calls[s].pc = "idle"
  /\ HistoryBelowBound
  /\ \E tok \in Identities : \E path \in HistoryPaths :
       \E body \in HistoryPutBodies(path) :
         LET q == PutCall("update", tok, path, body, NoStage, 0)
             found == currentLead(leads, q)
         IN calls' = [calls EXCEPT ![s] =
              IF rev # "p005" THEN q
              ELSE IF isNaN(parseInt(path))
              THEN [q EXCEPT !.pc = "done", !.status = 400]
              ELSE IF found = {}
              THEN [q EXCEPT !.pc = "done", !.status = 404]
              ELSE [q EXCEPT !.oldStage =
                      (CHOOSE l \in found : TRUE).current_stage]]
  /\ arg' = IF AllIdle THEN <<leads>> ELSE arg
  /\ UNCHANGED <<leadVars, ret, authRev, users, nextUserId, nextToken,
                 done, spent>>

PutUpdate(s) ==
  /\ calls[s].pc = "update"
  /\ leads' = UpdateOf(rev, leads, nextId, calls[s], calls[s].oldStage, now)
  /\ calls' = [calls EXCEPT ![s] = [@ EXCEPT !.pc = "done", !.status = 200]]
  /\ UNCHANGED <<rev, now, nextId, req, resp, pureVars, authRev, users,
                 nextUserId, nextToken, done, spent>>

CloseHistory ==
  /\ ~AllIdle
  /\ \A s \in Slots : calls[s].pc # "update"
  /\ calls' = [s \in Slots |-> NoPut]
  /\ arg' = <<>>
  /\ UNCHANGED <<leadVars, ret, authRev, users, nextUserId, nextToken,
                 done, spent>>

NextHistory ==
  \/ PostHistory
  \/ \E s \in Slots : PutSelect(s)
  \/ \E s \in Slots : PutUpdate(s)
  \/ CloseHistory

SpecHistory == InitHistory /\ [][NextHistory]_vars

\* The store after the PUTs of slots a and b, one after the other, from the
\* store the requests found.
OneAfterTheOther(a, b) ==
  PutAlone(rev, PutAlone(rev, arg[1], nextId, calls[a], now),
           nextId, calls[b], now)

\* C17: two PUTs to the same lead that overlap leave the lead, its stage and
\* its movement history included, as the two requests run one after the
\* other in some order would.
C17_ConcurrentPutsSerialized ==
  (\A s \in Slots : calls[s].pc = "done" /\ calls[s].path = calls[1].path)
    => leads \in {OneAfterTheOther(1, 2), OneAfterTheOther(2, 1)}

\* The slot whose UPDATE a step runs.
Updating(s) == calls[s].pc = "update" /\ calls'[s].pc = "done"

\* C19: in part_005 the movement history only grows: a PUT that changes the
\* stage of a lead from a to b appends the one record {from: a, to: b} to
\* the stored history, and a PUT that does not change the stage leaves the
\* history as it was.
C19_HistoryAppendOnly ==
  [][\A s \in Slots : (rev = "p005" /\ Updating(s)) =>
       \A l \in currentLead(leads, calls[s]) :
         \A m \in SameId(l, leads') :
           IF m.current_stage # l.current_stage
           THEN /\ Len(m.movement_history) = Len(l.movement_history) + 1
                /\ SubSeq(m.movement_history, 1, Len(l.movement_history))
                     = l.movement_history
                /\ m.movement_history[Len(m.movement_history)].from
                     = l.current_stage
                /\ m.movement_history[Len(m.movement_history)].to
                     = m.current_stage
           ELSE m.movement_history = l.movement_history
     ]_vars

----------------------------------------------------------------------------
(* The reset columns of routes/auth.js, under SpecAuth *)

\* Both reset columns of an account are unset, or both are set.
Paired(u) == (u.reset_token = NoResetToken) <=> (u.resetexpires = 0)

\* The account u as it is after the step.
After(u) == {v \in users' : v.id = u.id}

ResetColumnsChanged(u, v) ==
  v.reset_token # u.reset_token \/ v.resetexpires # u.resetexpires

\* C18: in routes/auth.js the reset token and its expiry of an account are
\* both unset or both set in every reachable state; request-reset sets
\* both, a reset that replaces the password clears both in the same
\* update, and no other operation touches either.
C18_ResetColumnsPaired ==
  /\ [](\A u \in users : Paired(u))
  /\ [][\A u \in users : \A v \in After(u) :
          /\ ResetColumnsChanged(u, v) =>
               \/ /\ done'.call.op = "request-reset"
                  /\ done'.status = 200
                  /\ u.email = done'.call.email
                  /\ v.reset_token = done'.call.token
                  /\ v.reset_token # NoResetToken
                  /\ v.resetexpires = now + ResetTTL
                  /\ v.password = u.password
               \/ /\ done'.call.op = "reset-password"
                  /\ done'.status = 200
                  /\ v.reset_token = NoResetToken
                  /\ v.resetexpires = 0
                  /\ v.password = bcryptHash(done'.call.password)
          /\ (Quiet /\ done'.call.op = "request-reset" /\ done'.status = 200
                /\ u.email = done'.call.email) =>
               (v.reset_token # NoResetToken /\ v.resetexpires # 0)
          /\ (Quiet /\ done'.call.op = "reset-password" /\ done'.status = 200
                /\ u.reset_token = done'.call.token) =>
               /\ v.password = bcryptHash(done'.call.password)
               /\ v.reset_token = NoResetToken
               /\ v.resetexpires = 0
      ]_vars

\* A reset has replaced the password of one account and cleared its reset
\* columns while another account still holds a token and its expiry.
C18_Witness ==
  /\ done.call.op = "reset-password"
  /\ done.status = 200
  /\ done.rowCount = 1
  /\ \E u \in users :
       /\ u.password = bcryptHash(done.call.password)
       /\ u.reset_token = NoResetToken
       /\ u.resetexpires = 0
  /\ \E v \in users : v.reset_token # NoResetToken /\ v.resetexpires # 0

----------------------------------------------------------------------------
(* POST and PUT of routes/leads.js and part_002 with the clock advancing;
   the specification SpecFrame *)

\* POST / of part_002: the stage of the body is stored as it came.
postLead_p002(store, next, t, tok, body) ==
  LET user_id == headerUserId(tok)
      company == Default(body.company, <<>>)
      cleanCompany == IF Len(Trim(company)) >= 2 THEN Trim(company)
                      ELSE UntitledCompany
      stage == IF body.stage = NoStage THEN "awareness" ELSE body.stage
      row == Row(next, user_id, cleanCompany, Default(body.contact, <<>>),
                 Default(body.email, <<>>), stage,
                 Default(body.notes, <<>>), Null, t)
      after == store \cup {row}
  IN IF isNaN(user_id)
     THEN {Outcome(ErrorResp(400, "user_id is required"), store, next)}
     ELSE IF Trim(company) = <<>>
     THEN {Outcome(ErrorResp(400, "Company name is required"), store, next)}
     ELSE {IF groupLeadsByStage_p002(rows).threw
           THEN Outcome(ErrorResp(500, "Failed to add lead"), after, next + 1)
           ELSE Outcome(GroupedResp(201, groupLeadsByStage_p002(rows).grouped),
                        after, next + 1) :
             rows \in AnyOrder(OwnedBy(after, user_id))}

\* The UPDATE of part_002's PUT applied to one row: every column it names
\* is set from the body.
updateRow_p002(l, body) ==
  [l EXCEPT
     !.company = Default(body.company, <<>>),
     !.contact = Default(body.contact, <<>>),
     !.email = Default(body.email, <<>>),
     !.stage = IF body.stage = NoStage THEN "awareness" ELSE body.stage,
     !.notes = Default(body.notes, <<>>),
     !.content_strategies = <<"[", "]">>]

\* PUT /:id of part_002
putLead_p002(store, next, tok, path, body) ==
  LET leadId == parseInt(path)
      providedUserId == headerUserId(tok)
      matched == {l \in store : l.id = leadId /\ l.user_id = providedUserId}
      after == {IF l \in matched THEN updateRow_p002(l, body) ELSE l : l \in store}
  IN IF isNaN(leadId) \/ isNaN(providedUserId)
     THEN {Outcome(ErrorResp(400, "Invalid IDs"), store, next)}
     ELSE IF Trim(Default(body.company, <<>>)) = <<>>
               \/ Trim(Default(body.contact, <<>>)) = <<>>
     THEN {Outcome(ErrorResp(400, "Company and contact are required"),
                   store, next)}
     ELSE IF matched = {}
     THEN {Outcome(ErrorResp(404, "Lead not found or not owned by user"),
                   store, next)}
     ELSE {Outcome(LeadResp(presentLead_p002(updatedLead, updatedLead.stage)),
                   after, next) :
             updatedLead \in {updateRow_p002(l, body) : l \in matched}}

FrameRevs == {"leads", "p002"}

FramePostBodies ==
  {Body(Acme, Ann, Mail, "interest", Null, NoContent),
   Body(Null, Ann, Mail, "interest", Null, NoContent)}

FramePutBodies ==
  {Body(Beta, Ann, Mail, "intent", Ann, ContentText(<<"a">>)),
   Body(Beta, Null, Null, NoStage, Null, NoContent),
   Body(Null, Null, Null, "intent", Null, NoContent)}

PostFrame ==
  /\ Idle
  /\ nextId <= MaxLeads
  /\ \E tok \in Identities : \E body \in FramePostBodies :
       \E o \in IF rev = "leads" THEN postLead(leads, nextId, now, tok, body)
                ELSE postLead_p002(leads, nextId, now, tok, body) :
         Answer(Request("POST /", tok, Null, body), o)

PutFrame ==
  /\ Idle
  /\ \E tok \in Identities : \E path \in LeadPaths :
       \E body \in FramePutBodies :
         \E o \in IF rev = "leads" THEN putLead(leads, nextId, tok, path, body)
                  ELSE putLead_p002(leads, nextId, tok, path, body) :
           Answer(Request("PUT /:id", tok, path, body), o)

\* An hour passes between two requests.
TickFrame ==
  /\ Idle
  /\ now < MaxTime
  /\ now' = now + 1
  /\ UNCHANGED <<rev, leads, nextId, req, resp, pureVars, authVars>>

InitFrame == InitLeadsOf(FrameRevs) /\ IdlePure /\ IdleAuth

NextFrame == PostFrame \/ PutFrame \/ TickFrame \/ Close

SpecFrame == InitFrame /\ [][NextFrame]_vars

\* The id, owner and creation time of every lead of the store.
Identity(store) == {<<l.id, l.user_id, l.created_at>> : l \in store}

\* C20: no PUT, answered 200 or not, changes the id, the owner or the
\* creation time of any lead, whatever its body.
C20_IdentityImmutable ==
  [][(Idle /\ req'.op = "PUT /:id") =>
       /\ Identity(leads') = Identity(leads)
       /\ Cardinality(leads') = Cardinality(leads)]_vars

\* A PUT has changed the company of a lead that was created earlier.
C20_Witness ==
  /\ req.op = "PUT /:id"
  /\ resp.status = 200
  /\ \E l \in leads :
       /\ l.id = parseInt(req.path)
       /\ l.company = Beta
       /\ l.created_at < now

----------------------------------------------------------------------------
(* The company of a stored lead, under Spec *)

\* The company of the body is missing, or shorter than two characters once
\* trimmed.
CompanyTooShort(body) ==
  ~Truthy(body.company) \/ Len(Trim(body.company)) < 2

WritesCompany == req.op \in {"POST /", "PUT /:id"}

CompanyStored == \A l \in leads : Len(Trim(l.company)) >= 2

\* C21 as stated: every stored company has at least two characters after
\* trimming, and every POST or PUT whose company is missing or shorter is
\* answered 400 and changes nothing.
C21_ShortCompanyAlways400 ==
  /\ []CompanyStored
  /\ [][(Idle /\ WritesCompany' /\ CompanyTooShort(req'.body)) =>
          (resp'.status = 400 /\ leads' = leads)]_vars

\* C21, amended: every stored company has at least two characters after
\* trimming; a POST or PUT with a valid token whose company is missing or
\* shorter is answered 400, and with or without a valid token it changes
\* nothing.
C21_ShortCompanyRejected ==
  /\ []CompanyStored
  /\ [][(Idle /\ WritesCompany' /\ CompanyTooShort(req'.body)) =>
          /\ leads' = leads
          /\ req'.tok.valid => resp'.status = 400]_vars

\* A POST whose company has one character once trimmed was answered 400
\* while the store holds a lead.
C21_Witness ==
  /\ req.op = "POST /"
  /\ req.tok.valid
  /\ req.body.company = ShortName
  /\ resp.status = 400
  /\ leads # {}

----------------------------------------------------------------------------
(* Content strategies given as a list, routes/leads.js; the specification
   SpecContent *)

MaxLabels == 2

MaxContentLeads == 1

\* Labels without a comma: plain, padded, blank and empty.
Labels == {<<"a">>, <<" ", "b", " ">>, <<" ">>, <<>>}

\* The account that sends the requests.
ContentCallers == {TokenOf(1)}

ContentPaths == {ToText(i) : i \in 1..MaxContentLeads}

\* arg holds the list of labels the requests of a behaviour supply.
InitContent ==
  /\ InitLeadsOf({"leads"})
  /\ \E n \in 0..MaxLabels : \E l \in [1..n -> Labels] : arg = l
  /\ ret = <<>>
  /\ IdleAuth

\* A POST with the list as content, or with no content.
PostContent ==
  /\ Idle
  /\ nextId <= MaxContentLeads
  /\ \E tok \in ContentCallers : \E content \in {NoContent, ContentArray(arg)} :
       LET body == Body(Acme, Ann, Mail, "interest", Null, content)
       IN \E o \in postLead(leads, nextId, now, tok, body) :
            Answer(Request("POST /", tok, Null, body), o)

\* A PUT with the list as content, or with no content.
PutContent ==
  /\ Idle
  /\ \E tok \in ContentCallers : \E path \in ContentPaths :
       \E content \in {NoContent, ContentArray(arg)} :
         LET body == Body(Acme, Null, Null, NoStage, Null, content)
         IN \E o \in putLead(leads, nextId, tok, path, body) :
              Answer(Request("PUT /:id", tok, path, body), o)

NextContent == PostContent \/ PutContent \/ Close

SpecContent == InitContent /\ [][NextContent]_vars

\* The lead the answered request has written.
WrittenId == IF req.op = "POST /" THEN nextId - 1 ELSE parseInt(req.path)

\* The contentStrategies a GET /:userId of the caller may show for the lead.
StrategiesShown ==
  {p.contentStrategies :
     p \in {x \in UNION {Shown(o.resp.grouped) :
                           o \in getLeads(leads, nextId, req.tok,
                                          ToText(req.tok.id))} :
              x.id = WrittenId}}

\* C22: after a POST or PUT that supplies a list of comma-free labels as
\* content, a GET shows for that lead the trimmed, non-empty labels in their
\* order as contentStrategies; a lead with no content shows none.
C22_StrategiesRoundTrip ==
  (req.op \in {"POST /", "PUT /:id"} /\ resp.status \in {200, 201}) =>
    StrategiesShown =
      {IF req.body.content.kind = "array"
       THEN TrimmedNonEmpty(req.body.content.items) ELSE <<>>}

\* A PUT has supplied a padded label and a blank one, and the GET shows the
\* one trimmed label.
C22_Witness ==
  /\ req.op = "PUT /:id"
  /\ resp.status = 200
  /\ req.body.content = ContentArray(<<<<" ", "b", " ">>, <<" ">>>>)
  /\ StrategiesShown = {<<<<"b">>>>}

----------------------------------------------------------------------------
(* Store failures: the queries of each handler of routes/leads.js and
   routes/auth.js in the order the handler issues them, each of which the
   store may fail; the specification SpecFailures.  A request in flight
   occupies a slot of calls. *)

\* After its k-th query has succeeded a handler may end the request with one
\* of the statuses Plan(op)[k]; unless the query is its last, it may go on
\* to the next one.
Plan(op) ==
  CASE op = "GET /:userId" -> <<{200}>>
    [] op = "POST /" -> <<{}, {201}>>
    [] op = "GET /metrics/:userId" -> <<{200}>>
    [] op = "PUT /:id" -> <<{404}, {}, {200}>>
    [] op = "DELETE /:id" -> <<{404}, {}, {200}>>
    [] op = "POST /register" -> <<{400}, {200}>>
    [] op = "POST /login" -> <<{404, 401, 200}>>
    [] op = "GET /validate" -> <<{404, 200}>>
    [] op = "POST /request-reset" -> <<{404}, {200, 500}>>
    [] op = "POST /reset-password" -> <<{400}, {200}>>

Handlers ==
  {"GET /:userId", "POST /", "GET /metrics/:userId", "PUT /:id",
   "DELETE /:id", "POST /register", "POST /login", "GET /validate",
   "POST /request-reset", "POST /reset-password"}

\* The status the catch block of the handler answers.
CatchStatus(op) == IF op = "GET /validate" THEN 401 ELSE 500

Flight(op, pc, issued, failed, responses) ==
  [op |-> op, pc |-> pc, issued |-> issued, failed |-> failed,
   responses |-> responses]

NoFlight == Flight("none", "idle", <<>>, 0, <<>>)

InitFailures ==
  /\ InitLeadsOf({"leads"})
  /\ IdlePure
  /\ authRev = "none" /\ users = {} /\ nextUserId = 1 /\ nextToken = 1
  /\ calls = [s \in Slots |-> NoFlight]
  /\ done = <<>>
  /\ spent = {}

FlightStep(s, f) ==
  /\ calls' = [calls EXCEPT ![s] = f]
  /\ UNCHANGED <<leadVars, pureVars, authRev, users, nextUserId, nextToken,
                 done, spent>>

\* A request arrives and its handler issues its first query.
Begin(s) ==
  /\ calls[s].pc = "idle"
  /\ \E op \in Handlers : FlightStep(s, Flight(op, "query", <<1>>, 0, <<>>))

\* The query in flight succeeds: the handler answers, or issues the next.
QuerySucceeds(s) ==
  LET f == calls[s]
      k == Len(f.issued)
  IN /\ f.pc = "query"
     /\ \/ \E status \in Plan(f.op)[k] :
             FlightStep(s, [f EXCEPT !.pc = "ended",
                                     !.responses = Append(@, status)])
        \/ /\ k < Len(Plan(f.op))
           /\ FlightStep(s, [f EXCEPT !.issued = Append(@, k + 1)])

\* The query in flight fails: pool.query rejects, the await throws, and the
\* catch block of the handler answers.
QueryFails(s) ==
  LET f == calls[s]
  IN /\ f.pc = "query"
     /\ FlightStep(s, [f EXCEPT !.pc = "ended",
                                !.failed = Len(f.issued),
                                !.responses = Append(@, CatchStatus(f.op))])

\* The response has gone out.
CloseFlight(s) ==
  /\ calls[s].pc = "ended"
  /\ FlightStep(s, NoFlight)

NextFailures ==
  \/ \E s \in Slots : Begin(s)
  \/ \E s \in Slots : QuerySucceeds(s)
  \/ \E s \in Slots : QueryFails(s)
  \/ \E s \in Slots : CloseFlight(s)

SpecFailures == InitFailures /\ [][NextFailures]_vars

\* C23: a request one of whose queries failed ends with exactly one
\* response, of status 500, and neither the failed query nor any other is
\* issued after the failure, in every lead and auth handler.
C23_StoreFailureIs500 ==
  \A s \in Slots :
    calls[s].failed # 0 =>
      /\ calls[s].responses = <<500>>
      /\ calls[s].issued = [k \in 1..calls[s].failed |-> k]

----------------------------------------------------------------------------
(* The handlers of routes/leads.js, and POST / of part_006, split at their
   awaits, two requests interleaving and the store free to fail a query;
   the specification SpecSteps.  pc names the query a request awaits;
   queries lists the queries it has issued. *)

MaxStepLeads == 1

StepRevs == {"leads", "p006"}

StepCall(op, tok, path, body) ==
  [op |-> op, tok |-> tok, path |-> path, body |-> body, pc |-> "auth",
   verified |-> FALSE, queries |-> <<>>, status |-> 0, rowCount |-> 0,
   inserted |-> 0]

NoStep == [StepCall("none", NoToken, Null, NoBody) EXCEPT !.pc = "idle"]

StepTokens == {NoToken, BadToken, TokenOf(1)}

StepPaths == {ToText(i) : i \in 1..MaxStepLeads}

StepRequests ==
  {StepCall("POST /", tok, Null, body) :
     tok \in StepTokens,
     body \in {Body(Acme, Ann, Mail, "interest", Null, NoContent),
               Body(ShortName, Ann, Mail, "interest", Null, NoContent)}}
    \cup (IF rev # "leads" THEN {}
          ELSE {StepCall("GET /:userId", tok, ToText(1), NoBody) :
                  tok \in StepTokens}
                 \cup {StepCall("PUT /:id", tok, path,
                                Body(Beta, Null, Null, "intent", Null, NoContent)) :
                         tok \in StepTokens, path \in StepPaths}
                 \cup {StepCall("DELETE /:id", tok, path, NoBody) :
                         tok \in StepTokens, path \in StepPaths})

InitSteps ==
  /\ InitLeadsOf(StepRevs)
  /\ IdlePure
  /\ authRev = "none" /\ users = {} /\ nextUserId = 1 /\ nextToken = 1
  /\ calls = [s \in Slots |-> NoStep]
  /\ done = <<>>
  /\ spent = {}

\* A step of the request in slot s that leaves the store alone.
StepTo(s, c) ==
  /\ calls' = [calls EXCEPT ![s] = c]
  /\ UNCHANGED <<leadVars, pureVars, authRev, users, nextUserId, nextToken,
                 done, spent>>

\* A step of the request in slot s that leaves the store as store.
StoreTo(s, c, store, next) ==
  /\ calls' = [calls EXCEPT ![s] = c]
  /\ leads' = store
  /\ nextId' = next
  /\ UNCHANGED <<rev, now, req, resp, pureVars, authRev, users, nextUserId,
                 nextToken, done, spent>>

Ended(c, status) == [c EXCEPT !.pc = "ended", !.status = status]

Issue(c, query) == [c EXCEPT !.pc = query, !.queries = Append(@, query)]

\* The POSTs that may still insert a lead.
PendingPosts ==
  Cardinality({s \in Slots : /\ calls[s].op = "POST /"
                             /\ calls[s].pc \in {"auth", "handler", "INSERT"}})

Arrive(s) ==
  /\ calls[s].pc = "idle"
  /\ \E c \in StepRequests :
       /\ c.op = "POST /" => nextId + PendingPosts <= MaxStepLeads
       /\ StepTo(s, c)

\* authenticateToken, the middleware in front of every route.
VerifyToken(s) ==
  LET c == calls[s]
      auth == IF rev = "leads" THEN authenticateToken(c.tok)
              ELSE authenticateToken_p009(c.tok)
  IN /\ c.pc = "auth"
     /\ IF auth.ok THEN StepTo(s, [c EXCEPT !.pc = "handler", !.verified = TRUE])
        ELSE StepTo(s, Ended(c, auth.resp.status))

\* The handler up to its first query.
StartHandler(s) ==
  LET c == calls[s]
  IN /\ c.pc = "handler"
     /\ CASE c.op = "POST /" ->
               IF \/ rev = "leads" /\ (~Truthy(c.body.company)
                                         \/ ~Truthy(c.body.contact)
                                         \/ ~Truthy(c.body.email))
                  \/ validateLeadData(c.body.company, c.body.email)
               THEN StepTo(s, Ended(c, 400))
               ELSE StepTo(s, Issue(c, "INSERT"))
          [] c.op = "GET /:userId" ->
               IF isNaN(parseInt(c.path)) THEN StepTo(s, Ended(c, 400))
               ELSE IF ~StrictEq(parseInt(c.path), c.tok.id)
               THEN StepTo(s, Ended(c, 403))
               ELSE StepTo(s, Issue(c, "SELECT"))
          [] c.op = "PUT /:id" ->
               IF isNaN(parseInt(c.path)) THEN StepTo(s, Ended(c, 400))
               ELSE IF validateLeadData(c.body.company, c.body.email)
               THEN StepTo(s, Ended(c, 400))
               ELSE StepTo(s, Issue(c, "VERIFY"))
          [] c.op = "DELETE /:id" ->
               IF isNaN(parseInt(c.path)) THEN StepTo(s, Ended(c, 400))
               ELSE StepTo(s, Issue(c, "VERIFY"))

\* The rows WHERE id = $1 AND user_id = $2 of the request.
OwnRows(c, store) ==
  {l \in store : l.id = parseInt(c.path) /\ l.user_id = c.tok.id}

\* The query the request awaits runs and the handler goes on to its next
\* await or to its response.
StoreAnswers(s) ==
  LET c == calls[s]
      own == OwnRows(c, leads)
      posted == (CHOOSE o \in PostOf(rev, leads, nextId, now, c.tok, c.body) :
                   TRUE).leads
  IN CASE c.pc = "INSERT" ->
            StoreTo(s, [Issue(c, "RELOAD") EXCEPT !.inserted = nextId],
                    posted, nextId + 1)
       [] c.pc = "RELOAD" ->
            StepTo(s, Ended(c, IF c.op = "POST /" THEN 201 ELSE 200))
       [] c.pc = "SELECT" -> StepTo(s, Ended(c, 200))
       [] c.pc = "VERIFY" ->
            IF own = {} THEN StepTo(s, Ended(c, 404))
            ELSE StepTo(s, Issue(c, IF c.op = "PUT /:id" THEN "UPDATE"
                                    ELSE "DELETE"))
       [] c.pc = "UPDATE" ->
            StoreTo(s, [Issue(c, "RELOAD") EXCEPT !.rowCount = Cardinality(own)],
                    {IF l \in own THEN updateRow(l, c.body) ELSE l : l \in leads},
                    nextId)
       [] c.pc = "DELETE" ->
            StoreTo(s, [Issue(c, "RELOAD") EXCEPT !.rowCount = Cardinality(own)],
                    leads \ own, nextId)
       [] OTHER -> FALSE

Awaiting(c) ==
  c.pc \in {"INSERT", "RELOAD", "SELECT", "VERIFY", "UPDATE", "DELETE"}

\* The query the request awaits fails: nothing is written, the catch block
\* answers 500.
StoreFails(s) ==
  /\ Awaiting(calls[s])
  /\ StepTo(s, Ended(calls[s], 500))

\* The response has gone out.
Respond(s) ==
  /\ calls[s].pc = "ended"
  /\ StepTo(s, NoStep)

NextSteps ==
  \/ \E s \in Slots : Arrive(s)
  \/ \E s \in Slots : VerifyToken(s)
  \/ \E s \in Slots : StartHandler(s)
  \/ \E s \in Slots : StoreAnswers(s)
  \/ \E s \in Slots : StoreFails(s)
  \/ \E s \in Slots : Respond(s)

SpecSteps == InitSteps /\ [][NextSteps]_vars

\* C24: authentication precedes every access to the lead store. A request
\* that has issued a query carries a token the middleware verified; a request
\* of routes/leads.js without a token ends with 401 and one with an invalid
\* token with 403, neither having issued a query; and the store changes only
\* in a step of a verified request.
C24_AuthBeforeStore ==
  /\ [](\A s \in Slots :
          LET c == calls[s]
          IN /\ c.queries # <<>> =>
                  c.verified /\ c.tok.present /\ c.tok.valid
             /\ ~(c.tok.present /\ c.tok.valid) /\ c.pc \notin {"idle", "auth"} =>
                  /\ c.pc = "ended"
                  /\ c.queries = <<>>
                  /\ rev = "leads" =>
                       c.status = (IF c.tok.present THEN 403 ELSE 401))
  /\ [][leads' # leads =>
          \E s \in Slots : /\ calls[s].verified
                           /\ calls[s].tok.present /\ calls[s].tok.valid
                           /\ calls'[s].queries # calls[s].queries]_vars

\* One request was turned away with 401 and another with 403 while the store
\* holds a lead that a verified request inserted.
C24_Witness ==
  /\ rev = "leads"
  /\ leads # {}
  /\ calls[1].pc = "ended" /\ calls[1].tok = NoToken /\ calls[1].status = 401
  /\ calls[2].pc = "ended" /\ calls[2].tok = BadToken /\ calls[2].status = 403

\* C25: a POST / answered 400 or 500 leaves no lead of its own in the store;
\* in particular when its INSERT succeeded and its reload query failed.
C25_FailedPostLeavesNothing ==
  \A s \in Slots :
    LET c == calls[s]
    IN c.op = "POST /" /\ c.pc = "ended" /\ c.status \in {400, 500} =>
         \A l \in leads : l.id # c.inserted

\* C26: a PUT /:id is answered 200 only if its UPDATE modified exactly one
\* lead of the caller; a PUT whose lead a concurrent DELETE removed between
\* the ownership check and the UPDATE is not answered 200.
C26_PutOkOnlyIfUpdated ==
  \A s \in Slots :
    LET c == calls[s]
    IN c.op = "PUT /:id" /\ c.pc = "ended" /\ c.status = 200 => c.rowCount = 1

----------------------------------------------------------------------------
(* Further properties of the metrics, under SpecMetrics *)

\* C27: the metrics loop of routes/leads.js counts every stored stage, the
\* names of inherited object properties included, under the stage under
\* which groupLeadsByStage places the lead, and every per-stage figure of
\* the report is a number over the five stages only.
C27_SameClassification ==
  (Returned /\ rev = "leads") =>
    /\ \A i \in DOMAIN arg : metricsStage(arg[i].stage) = classify(arg[i].stage)
    /\ DOMAIN ret[1].stageDistribution = StageSet
    /\ \A s \in StageSet :
         ret[1].stageDistribution[s] =
           RoundedPercent(Cardinality({i \in DOMAIN arg :
                                         classify(arg[i].stage) = s}),
                          IF arg = <<>> THEN 1 ELSE Len(arg))

\* The five counters of stageCounts after the metrics loop over rows.
countStages(rows) ==
  [s \in StageSet |->
     Cardinality({i \in DOMAIN rows : metricsStage(rows[i].stage) = s})]

\* C28: for every lead list the report of routes/leads.js has the five
\* per-stage counts summing to totalLeads, inferredHotLeads <=
\* leadsAddedThisWeek <= totalLeads, inferredHotLeads + staleLeads <=
\* totalLeads, and engagementRate and every stageDistribution entry between
\* 0 and 100.
C28_ReportInvariants ==
  (Returned /\ rev = "leads") =>
    LET m == ret[1]
        counts == countStages(arg)
    IN /\ counts["awareness"] + counts["interest"] + counts["intent"]
            + counts["evaluation"] + counts["purchase"] = m.totalLeads
       /\ m.inferredHotLeads <= m.leadsAddedThisWeek
       /\ m.leadsAddedThisWeek <= m.totalLeads
       /\ m.inferredHotLeads + m.staleLeads <= m.totalLeads
       /\ m.engagementRate \in 0..100
       /\ \A s \in DOMAIN m.stageDistribution :
            m.stageDistribution[s] \in 0..100

----------------------------------------------------------------------------
(* Further properties of the auth router, under SpecAuth *)

\* The tokens that pass the SELECT of POST /reset-password for account u.
UsableFor(u) ==
  {t \in 1..(nextToken - 1) : u.reset_token = t /\ u.resetexpires > now}

\* The token was issued, has changed no password, and is stored with no
\* account: a later POST /request-reset has replaced it.
Superseded(token) ==
  /\ token \in 1..(nextToken - 1)
  /\ token \notin spent
  /\ \A u \in users : u.reset_token # token

\* C29: at most one reset token is usable per account at any time; once a
\* second request-reset has replaced an account's token, a reset-password
\* with the first token is answered 400 and changes nothing, while the
\* token stored last resets the password as long as it is stored and not
\* expired.
C29_OnlyNewestTokenUsable ==
  /\ [](\A u \in users : Cardinality(UsableFor(u)) <= 1)
  /\ [][ResetAnswered =>
          LET token == done'.call.token
          IN /\ Superseded(token) => done'.status = 400 /\ users' = users
             /\ (\E u \in users : token \in UsableFor(u)) =>
                  /\ done'.status = 200
                  /\ \E u \in users' :
                       u.password = bcryptHash(done'.call.password)
     ]_vars

\* The statuses POST /login can answer with for email and password over the
\* rows of store.
loginStatus(store, email, password) ==
  LET rows == {u \in store : u.email = email}
  IN IF rows = {} THEN {404}
     ELSE {IF bcryptCompare(password, user.password) THEN 200 ELSE 401 :
             user \in rows}

\* C30: when a reset-password request with new password p is answered 200,
\* there is an account for which a login that follows succeeds with p and
\* is answered 401 with the password it had before (when that is not p),
\* and every other account is as it was.
C30_LoginAfterReset ==
  [][(ResetAnswered /\ done'.status = 200) =>
       LET p == done'.call.password
       IN \E u \in users :
            /\ loginStatus(users', u.email, p) = {200}
            /\ u.password.bcrypt # p =>
                 loginStatus(users', u.email, u.password.bcrypt) = {401}
            /\ \A v \in users \ {u} : v \in users'
     ]_vars

====
